---------------------------- MODULE Spec2Model ----------------------------
(***************************************************************************)
(* Model of the BaselineFlow feature-compatibility engine:                 *)
(*   BaselineChecker (registry + matcher), CSSAnalyzer,                    *)
(*   SimpleJavaScriptAnalyzer, JavaScriptAnalyzer and Analyzer.            *)
(* JavaScript strings are sequences of one-character strings, so that      *)
(* toLowerCase, replace, includes and concatenation are computed.          *)
(***************************************************************************)
EXTENDS Integers, Sequences, FiniteSets, TLC

(***************************************************************************)
(* Bounds of the model.                                                    *)
(***************************************************************************)
MaxFeatures == 2

(***************************************************************************)
(* JavaScript string primitives.                                           *)
(***************************************************************************)
Str(s) == [i \in 1..Len(s) |-> SubSeq(s, i, i)]

UpperChars == Str("ABCDEFGHIJKLMNOPQRSTUVWXYZ")
LowerChars == Str("abcdefghijklmnopqrstuvwxyz")

UpperSet == { UpperChars[i] : i \in 1..26 }

IsUpper(c) == c \in UpperSet

LowerTable == [c \in UpperSet |-> LowerChars[CHOOSE i \in 1..26 : UpperChars[i] = c]]

\* String.prototype.toLowerCase on one character
LowerChar(c) == IF c \in UpperSet THEN LowerTable[c] ELSE c

toLowerCase(s) == [i \in 1..Len(s) |-> LowerChar(s[i])]

\* String.prototype.startsWith
startsWith(s, p) == Len(p) <= Len(s) /\ SubSeq(s, 1, Len(p)) = p

\* String.prototype.includes
includes(s, sub) ==
  \E i \in 0..(Len(s) - Len(sub)) : SubSeq(s, i + 1, i + Len(sub)) = sub

\* s.slice(n): the string without its first n characters
DropFirst(s, n) == SubSeq(s, n + 1, Len(s))

RECURSIVE Concat(_)
Concat(ss) == IF ss = <<>> THEN <<>> ELSE Head(ss) \o Concat(Tail(ss))

(***************************************************************************)
(* Map<string, any>: insertion-ordered entries; set() on an existing key   *)
(* replaces the value and keeps the key's position.                        *)
(***************************************************************************)
MapHas(m, k) == \E i \in 1..Len(m) : m[i].key = k

MapGet(m, k) == m[CHOOSE i \in 1..Len(m) : m[i].key = k].feature

MapSet(m, k, f) ==
  IF MapHas(m, k)
    THEN [i \in 1..Len(m) |-> IF m[i].key = k THEN [key |-> k, feature |-> f] ELSE m[i]]
    ELSE Append(m, [key |-> k, feature |-> f])

RECURSIVE MapSetAll(_, _, _)
MapSetAll(m, ks, f) ==
  IF ks = <<>> THEN m ELSE MapSetAll(MapSet(m, Head(ks), f), Tail(ks), f)

(***************************************************************************)
(* The web-features dataset: the entries of the imported features        *)
(* object, in key order.  A record has an id (its key), a display name     *)
(* (<<>> when absent), the compat keys it declares and a status; entries   *)
(* without a status are the ones checkFeature guards against.              *)
(***************************************************************************)
Browsers ==
  {"chrome", "firefox", "safari", "edge", "chrome_android", "firefox_android", "safari_ios"}

Undefined == "undefined"

\* status.support of a record: desktop browsers only, from version v
DesktopSupport(v) ==
  [b \in {"chrome", "firefox", "safari", "edge"} |-> v]

NoSupport == [b \in {} |-> Undefined]

Status(b, sup) == [present |-> TRUE, baseline |-> b, support |-> sup]

NoStatus == [present |-> FALSE, baseline |-> Undefined, support |-> NoSupport]

Feature(id, name, status, compat) ==
  [id |-> Str(id), name |-> Str(name), status |-> status,
   compat_features |-> [i \in 1..Len(compat) |-> Str(compat[i])]]

FeaturePool ==
  { Feature("flexbox", "Flexbox", Status("high", DesktopSupport("29")),
            <<"css.properties.flex">>),
    Feature("flex", "Flex shim", NoStatus, <<>>),
    Feature("container-queries", "Container queries", Status("low", DesktopSupport("105")),
            <<"css.at-rules.container">>),
    Feature("container-queries", "Container queries", Status("false", DesktopSupport("106")),
            <<"css.at-rules.container">>),
    Feature("transforms2d", "2D transforms", Status("high", DesktopSupport("36")),
            <<"css.properties.transform">>),
    Feature("transforms2d", "2D transforms", NoStatus,
            <<"css.properties.transform">>),
    Feature("prefixed-transform", "", Status("false", DesktopSupport("4")),
            <<"css.properties.-webkit-transform", "css.properties.-moz-transform">>),
    Feature("background-color", "Background color", Status("low", DesktopSupport("1")),
            <<"css.properties.background-color">>),
    Feature("background-color", "Background color", NoStatus,
            <<"css.properties.background-color">>) }

DistinctIds(fs) ==
  \A i, j \in 1..Len(fs) : i # j => fs[i].id # fs[j].id

\* Object.entries(features): keys of an object are unique
Datasets ==
  UNION { { fs \in [1..n -> FeaturePool] : DistinctIds(fs) } : n \in 0..MaxFeatures }

(***************************************************************************)
(* BaselineConfig (src/types/index.ts).  loadConfig casts whatever string  *)
(* the command line or the config file gives to the target type.           *)
(***************************************************************************)
Targets == {"widely-available", "newly-available", "limited"}

\* --target / config-file "target" values: the three documented ones, one
\* that is not, and Undefined for an option or key that is not given
TargetInputs == Targets \cup {"baseline-2023", Undefined}

ExceptionLists == { <<>>, <<Str("container-queries")>> }

loadConfig(optTarget, fileTarget, fileExceptions) ==
  [target |-> IF optTarget # Undefined THEN optTarget
              ELSE IF fileTarget # Undefined THEN fileTarget
              ELSE "widely-available",
   exceptions |-> fileExceptions]

Configs ==
  { loadConfig(o, f, e) : o \in TargetInputs, f \in TargetInputs, e \in ExceptionLists }

(***************************************************************************)
(* BaselineChecker                                                         *)
(***************************************************************************)
\* the messages of checkFeature
s_polyfillMessage ==
  Str("Consider using a polyfill or waiting for broader browser support. Check caniuse.com for alternatives.")

s_progressiveMessage ==
  Str("Feature is newly available in Baseline. Consider progressive enhancement or polyfills for older browsers.")

s_notFoundHead == Str("Feature \"")
s_notFoundTail == Str("\" not found in web-features database")

\* the static alias table of addCommonMappings
mappings(id) ==
  CASE id = Str("flexbox") -> <<Str("flex"), Str("flexbox"), Str("css-flexbox")>>
    [] id = Str("css-grid") -> <<Str("grid"), Str("css-grid"), Str("grid-template-columns")>>
    [] id = Str("container-queries") -> <<Str("container-queries"), Str("@container")>>
    [] id = Str("custom-properties") ->
         <<Str("css-variables"), Str("css-custom-properties"), Str("--")>>
    [] id = Str("fetch") -> <<Str("fetch"), Str("fetch-api")>>
    [] id = Str("promises") -> <<Str("promise"), Str("promises")>>
    [] id = Str("async-functions") -> <<Str("async"), Str("async-await")>>
    [] id = Str("arrow-functions") -> <<Str("arrow-functions"), Str("=>")>>
    [] id = Str("template-literals") -> <<Str("template-literals"), Str("template-strings")>>
    [] id = Str("destructuring-assignment") -> <<Str("destructuring")>>
    [] id = Str("spread-syntax") -> <<Str("spread-operator"), Str("...")>>
    [] id = Str("optional-chaining") -> <<Str("?.")>>
    [] id = Str("nullish-coalescing") -> <<Str("??")>>
    [] OTHER -> <<>>

addCommonMappings(m, id, f) == MapSetAll(m, mappings(id), f)

\* the body of compat_features.forEach for one compat key
IndexCompat(m, compat, f) ==
  LET m1 == MapSet(m, compat, f)
  IN IF startsWith(compat, Str("css.properties."))
       THEN MapSet(m1, DropFirst(compat, Len(Str("css.properties."))), f)
       ELSE m1

RECURSIVE IndexCompats(_, _, _)
IndexCompats(m, compats, f) ==
  IF compats = <<>> THEN m
  ELSE IndexCompats(IndexCompat(m, Head(compats), f), Tail(compats), f)

\* the body of Object.entries(features).forEach for one record
IndexFeature(m, f) ==
  LET m1 == MapSet(m, f.id, f)
      m2 == IF f.name # <<>> THEN MapSet(m1, toLowerCase(f.name), f) ELSE m1
      m3 == IndexCompats(m2, f.compat_features, f)
  IN addCommonMappings(m3, f.id, f)

RECURSIVE IndexAll(_, _)
IndexAll(m, fs) ==
  IF fs = <<>> THEN m ELSE IndexAll(IndexFeature(m, Head(fs)), Tail(fs))

initializeFeatureMap(fs) == IndexAll(<<>>, fs)

\* a prefix stripper that knows -webkit- only
stripVendorPrefix_webkitOnly(property) ==
  IF startsWith(property, Str("-webkit-")) THEN DropFirst(property, Len(Str("-webkit-")))
  ELSE property

\* property.replace(/^-(?:webkit-|moz-|ms-|o-)/, '')
stripVendorPrefix(property) ==
  IF startsWith(property, Str("-webkit-")) THEN DropFirst(property, Len(Str("-webkit-")))
  ELSE IF startsWith(property, Str("-moz-")) THEN DropFirst(property, Len(Str("-moz-")))
  ELSE IF startsWith(property, Str("-ms-")) THEN DropFirst(property, Len(Str("-ms-")))
  ELSE IF startsWith(property, Str("-o-")) THEN DropFirst(property, Len(Str("-o-")))
  ELSE property

\* property.replace(/([A-Z])/g, '-$1').toLowerCase()
RECURSIVE hyphenateUpper(_)
hyphenateUpper(s) ==
  IF s = <<>> THEN <<>>
  ELSE (IF IsUpper(Head(s)) THEN <<"-", Head(s)>> ELSE <<Head(s)>>) \o hyphenateUpper(Tail(s))

\* a kebab-case conversion that keeps the case of the letters
kebabCase_keepingCase(property) == hyphenateUpper(property)

kebabCase(property) == toLowerCase(hyphenateUpper(property))

generateCssVariations(property) ==
  LET withoutPrefix == stripVendorPrefix(property)
  IN <<property>>
     \o (IF withoutPrefix # property THEN <<withoutPrefix>> ELSE <<>>)
     \o <<kebabCase(property)>>
     \o <<Str("css-") \o withoutPrefix>>
     \o <<Str("css.properties.") \o withoutPrefix>>

\* a looked-up feature is <<f>>, null is <<>>
Null == <<>>

\* one entry of the registry matches the fuzzy query
fuzzyHit(entry, queryLower) ==
  \/ includes(entry.key, queryLower)
  \/ (entry.feature.name # <<>> /\ includes(toLowerCase(entry.feature.name), queryLower))

\* for (const [key, feature] of this.featureMap.entries()): first hit from entry i on
RECURSIVE fuzzyFrom(_, _, _)
fuzzyFrom(m, queryLower, i) ==
  IF i > Len(m) THEN Null
  ELSE IF fuzzyHit(m[i], queryLower) THEN <<m[i].feature>>
  ELSE fuzzyFrom(m, queryLower, i + 1)

fuzzySearch(m, query) == fuzzyFrom(m, toLowerCase(query), 1)

\* the first variation that is a key of the registry, 0 when none is
RECURSIVE variationFrom(_, _, _)
variationFrom(m, variations, i) ==
  IF i > Len(variations) THEN 0
  ELSE IF MapHas(m, variations[i]) THEN i
  ELSE variationFrom(m, variations, i + 1)

firstVariation(m, variations) == variationFrom(m, variations, 1)

\* a lookup that tries the substring fallback before the other stages
findFeature_substringFirst(m, query) ==
  IF fuzzySearch(m, query) # Null THEN fuzzySearch(m, query)
  ELSE IF MapHas(m, query) THEN <<MapGet(m, query)>>
  ELSE IF MapHas(m, toLowerCase(query)) THEN <<MapGet(m, toLowerCase(query))>>
  ELSE LET cssVariations == generateCssVariations(query)
           v == firstVariation(m, cssVariations)
       IN IF v # 0 THEN <<MapGet(m, cssVariations[v])>> ELSE Null

findFeature(m, query) ==
  IF MapHas(m, query) THEN <<MapGet(m, query)>>
  ELSE IF MapHas(m, toLowerCase(query)) THEN <<MapGet(m, toLowerCase(query))>>
  ELSE LET cssVariations == generateCssVariations(query)
           v == firstVariation(m, cssVariations)
       IN IF v # 0 THEN <<MapGet(m, cssVariations[v])>>
          ELSE fuzzySearch(m, query)

\* a tier mapping that takes every status but high for limited
getBaselineStatus_highOrLimited(status) ==
  IF status.baseline = "high" THEN "widely-available" ELSE "limited"

getBaselineStatus(status) ==
  IF status.baseline = "high" THEN "widely-available"
  ELSE IF status.baseline = "low" THEN "newly-available"
  ELSE "limited"

getBrowserSupport(status) ==
  [b \in Browsers |->
     IF b \in DOMAIN status.support THEN status.support[b] ELSE Undefined]

\* criteria under which the newly-available target accepts only newly
\* available features
evaluateCriteria_exactTier(cfg, baseline) ==
  CASE cfg.target = "widely-available" -> baseline = "widely-available"
    [] cfg.target = "newly-available" -> baseline = "newly-available"
    [] cfg.target = "limited" -> TRUE
    [] OTHER -> FALSE

\* criteria under which a configuration with exceptions accepts everything
evaluateCriteria_honouringExceptions(cfg, baseline) ==
  LET isException == Len(cfg.exceptions) > 0
  IN isException \/
     (CASE cfg.target = "widely-available" -> baseline = "widely-available"
        [] cfg.target = "newly-available" ->
             baseline = "widely-available" \/ baseline = "newly-available"
        [] cfg.target = "limited" -> TRUE
        [] OTHER -> FALSE)

evaluateCriteria(cfg, baseline) ==
  LET isException == Len(cfg.exceptions) > 0
  IN CASE cfg.target = "widely-available" -> baseline = "widely-available"
       [] cfg.target = "newly-available" ->
            baseline = "widely-available" \/ baseline = "newly-available"
       [] cfg.target = "limited" -> TRUE
       [] OTHER -> FALSE

\* a suggestion that advises progressive enhancement under every target
generateSuggestion_ignoringTarget(cfg, feature, baseline) ==
  IF baseline = "limited" THEN <<s_polyfillMessage>>
  ELSE IF baseline = "newly-available" THEN <<s_progressiveMessage>>
  ELSE <<>>

\* an optional string is <<text>>, undefined is <<>>
generateSuggestion(cfg, feature, baseline) ==
  IF baseline = "limited" THEN <<s_polyfillMessage>>
  ELSE IF baseline = "newly-available" /\ cfg.target = "widely-available"
    THEN <<s_progressiveMessage>>
  ELSE <<>>

notFoundSuggestion(featureId) == s_notFoundHead \o featureId \o s_notFoundTail

\* a not-found descriptor that accepts the token
notFoundDescriptor_accepting(featureId) ==
  [baseline |-> "null",
   browsers |-> NoSupport,
   meetsCriteria |-> TRUE,
   suggestion |-> <<notFoundSuggestion(featureId)>>]

\* the descriptor returned when no record, or a record without status, is found
notFoundDescriptor(featureId) ==
  [baseline |-> "null",
   browsers |-> NoSupport,
   meetsCriteria |-> FALSE,
   suggestion |-> <<notFoundSuggestion(featureId)>>]

checkFeature(m, cfg, featureId) ==
  LET feature == findFeature(m, featureId)
  IN IF feature = Null \/ ~feature[1].status.present
       THEN notFoundDescriptor(featureId)
       ELSE LET baseline == getBaselineStatus(feature[1].status)
            IN [baseline |-> baseline,
                browsers |-> getBrowserSupport(feature[1].status),
                meetsCriteria |-> evaluateCriteria(cfg, baseline),
                suggestion |-> generateSuggestion(cfg, feature[1], baseline)]

\* the properties every object literal inherits from Object.prototype, which
\* a lookup table[name] finds although the table does not list them
ObjectPrototypeKeys ==
  { Str("constructor"), Str("toString"), Str("valueOf"), Str("hasOwnProperty"),
    Str("isPrototypeOf"), Str("propertyIsEnumerable"), Str("toLocaleString"),
    Str("__proto__") }

\* modernizationMap[feature]: <<entry>> when the lookup is truthy, <<>> when
\* it is undefined.  An absent property of an entry is <<>>; what the lookup
\* finds for an inherited name is a function or Object.prototype, whose
\* spread copies no property
modernizationMap(feature) ==
  CASE feature = Str("float") ->
         <<[newFeature |-> <<"flexbox">>,
            description |-> <<"Replace float-based layouts with modern Flexbox">>,
            example |-> <<"display: flex; justify-content: space-between;">>]>>
    [] feature = Str("clearfix") ->
         <<[newFeature |-> <<"flexbox">>,
            description |-> <<"Use Flexbox instead of clearfix hacks">>,
            example |-> <<"display: flex; flex-wrap: wrap;">>]>>
    [] feature = Str("position: absolute") ->
         <<[newFeature |-> <<"css-grid">>,
            description |-> <<"Consider CSS Grid for complex layouts">>,
            example |-> <<"display: grid; grid-template-areas: \"header header\"">>]>>
    [] feature \in ObjectPrototypeKeys ->
         <<[newFeature |-> <<>>, description |-> <<>>, example |-> <<>>]>>
    [] OTHER -> <<>>

\* BaselineChecker.getModernizationSuggestions
getModernizationSuggestions(legacyFeatures) ==
  Concat([i \in 1..Len(legacyFeatures) |->
            IF modernizationMap(legacyFeatures[i]) # <<>>
              THEN <<[oldFeature |-> legacyFeatures[i]]
                     @@ modernizationMap(legacyFeatures[i])[1]>>
              ELSE <<>>])

(***************************************************************************)
(* Character classes of the regular expressions in the analyzers.          *)
(***************************************************************************)
LowerSet == { LowerChars[i] : i \in 1..26 }
LetterSet == LowerSet \cup UpperSet
DigitSet == {"0", "1", "2", "3", "4", "5", "6", "7", "8", "9"}
SpaceSet == {" ", "\t", "\n", "\r"}

\* the index of the last character of the longest run of characters of
\* class cls that starts at i; i - 1 when s[i] is not in cls
RECURSIVE RunEnd(_, _, _)
RunEnd(s, i, cls) ==
  IF i <= Len(s) /\ s[i] \in cls THEN RunEnd(s, i + 1, cls) ELSE i - 1

\* the first position from i on where s has character c, 0 when none
RECURSIVE IndexOfChar(_, _, _)
IndexOfChar(s, c, i) ==
  IF i > Len(s) THEN 0
  ELSE IF s[i] = c THEN i
  ELSE IndexOfChar(s, c, i + 1)

(***************************************************************************)
(* The severity rule, as each analyzer has it.                             *)
(***************************************************************************)
\* a severity rule that reports every rejected feature as an error
determineSeverity_alwaysError(baseline, meetsCriteria) ==
  IF ~meetsCriteria THEN "error" ELSE "info"

CSSAnalyzer_determineSeverity(baseline, meetsCriteria) ==
  IF ~meetsCriteria
    THEN (IF baseline = "limited" THEN "error" ELSE "warning")
    ELSE "info"

SimpleJavaScriptAnalyzer_determineSeverity(baseline, meetsCriteria) ==
  IF ~meetsCriteria
    THEN (IF baseline = "limited" THEN "error" ELSE "warning")
    ELSE "info"

JavaScriptAnalyzer_determineSeverity(baseline, meetsCriteria) ==
  IF ~meetsCriteria
    THEN (IF baseline = "limited" THEN "error" ELSE "warning")
    ELSE "info"

(***************************************************************************)
(* CSSAnalyzer.  The stylesheet is given as postcss parses it: its         *)
(* declarations, rules and at-rules, each list in document order (the      *)
(* order of walkDecls, walkRules and walkAtRules), or a parse error.       *)
(***************************************************************************)

ContextLimit == 100

\* str.slice(0, n)
sliceTo(str, n) == SubSeq(str, 1, IF Len(str) < n THEN Len(str) ELSE n)

CSSAnalyzer_getContext(node, type) ==
  CASE type = "property" -> node.prop \o Str(": ") \o node.value
    [] type = "at-rule" -> Str("@") \o node.name \o Str(" ") \o node.params
    [] type = "pseudo-selector" -> Str("selector: ") \o node.selector
    [] OTHER -> sliceTo(node.text, ContextLimit)
                \o (IF Len(node.text) > ContextLimit THEN Str("...") ELSE <<>>)

CSSAnalyzer_getPolyfillSuggestion(featureId) ==
  CASE featureId = Str("css-grid") -> <<Str("CSS Grid polyfill or Flexbox fallback")>>
    [] featureId = Str("custom-properties") -> <<Str("PostCSS custom properties plugin")>>
    [] featureId = Str("gap") -> <<Str("Use margin/padding for older browsers")>>
    [] featureId = Str("object-fit") -> <<Str("object-fit-images polyfill")>>
    [] featureId = Str("sticky") -> <<Str("position: -webkit-sticky; position: sticky;")>>
    [] OTHER -> <<>>

CSSAnalyzer_getAlternativeSuggestion(featureId) ==
  CASE featureId = Str("css-grid") -> <<Str("Use Flexbox for simpler layouts")>>
    [] featureId = Str("gap") -> <<Str("Use margin or padding properties")>>
    [] featureId = Str("aspect-ratio") -> <<Str("Use padding-bottom percentage technique")>>
    [] featureId = Str("clamp") -> <<Str("Use calc() with min/max functions")>>
    [] featureId = Str("container-queries") -> <<Str("Use media queries as fallback")>>
    [] OTHER -> <<>>

\* CSSAnalyzer.checkFeature: the usages one candidate adds to features
CSSAnalyzer_checkFeature(m, cfg, featureId, node, filePath, type) ==
  LET result == checkFeature(m, cfg, featureId)
  IN IF result.baseline # "null"
       THEN << [feature |-> featureId,
                featureId |-> featureId,
                file |-> filePath,
                line |-> node.line,
                column |-> node.column,
                context |-> CSSAnalyzer_getContext(node, type),
                baseline |-> result.baseline,
                browsers |-> result.browsers,
                severity |-> CSSAnalyzer_determineSeverity(result.baseline, result.meetsCriteria),
                suggestion |-> result.suggestion,
                polyfill |-> CSSAnalyzer_getPolyfillSuggestion(featureId),
                alternative |-> CSSAnalyzer_getAlternativeSuggestion(featureId)] >>
       ELSE <<>>

\* a candidate token with the type its caller passes to checkFeature
Candidate(featureId, type) == [featureId |-> featureId, type |-> type]

\* /([a-zA-Z-]+)\s*\(/g : the names of the matches from position i on
RECURSIVE functionNames(_, _)
functionNames(value, i) ==
  IF i > Len(value) THEN <<>>
  ELSE LET e == RunEnd(value, i, LetterSet \cup {"-"})
           w == RunEnd(value, e + 1, SpaceSet) + 1
       IN IF e >= i /\ w <= Len(value) /\ value[w] = "("
            THEN <<SubSeq(value, i, e)>> \o functionNames(value, w + 1)
            ELSE functionNames(value, i + 1)

keywords ==
  << Str("initial"), Str("inherit"), Str("unset"), Str("revert"), Str("revert-layer"),
     Str("fit-content"), Str("max-content"), Str("min-content"),
     Str("stretch"), Str("start"), Str("end"), Str("flex-start"), Str("flex-end"),
     Str("space-between"), Str("space-around"), Str("space-evenly") >>

checkedUnits == { Str("vh"), Str("vw"), Str("vmin"), Str("vmax"), Str("ch"), Str("rem"), Str("fr") }

\* /\d+(\.\d+)?\s*([a-zA-Z%]+)/g : group 2 of the matches from position i on
RECURSIVE unitNames(_, _)
unitNames(value, i) ==
  IF i > Len(value) THEN <<>>
  ELSE LET d == RunEnd(value, i, DigitSet)
           f == IF d + 1 <= Len(value) /\ value[d + 1] = "."
                  THEN RunEnd(value, d + 2, DigitSet) ELSE d
           \* end of the number with its fraction, when the fraction has digits
           n == IF f >= d + 2 THEN f ELSE d
           unitAfter(k) ==
             LET w == RunEnd(value, k + 1, SpaceSet) + 1
             IN <<w, RunEnd(value, w, LetterSet \cup {"%"})>>
           withFraction == unitAfter(n)
           withoutFraction == unitAfter(d)
           u == IF withFraction[2] >= withFraction[1] THEN withFraction ELSE withoutFraction
       IN IF d >= i /\ u[2] >= u[1]
            THEN <<SubSeq(value, u[1], u[2])>> \o unitNames(value, u[2] + 1)
            ELSE unitNames(value, i + 1)

\* CSSAnalyzer.analyzeValue
analyzeValue(value) ==
  LET functions == functionNames(value, 1)
      units == SelectSeq(unitNames(value, 1), LAMBDA u : u \in checkedUnits)
  IN [i \in 1..Len(functions) |-> Candidate(functions[i], "function")]
     \o [i \in 1..Len(SelectSeq(keywords, LAMBDA k : includes(value, k))) |->
           Candidate(SelectSeq(keywords, LAMBDA k : includes(value, k))[i], "keyword")]
     \o [i \in 1..Len(units) |-> Candidate(units[i] \o Str("-unit"), "unit")]

\* CSSAnalyzer.analyzeDeclaration
analyzeDeclaration(decl) ==
  <<Candidate(decl.prop, "property")>>
  \o analyzeValue(decl.value)
  \o (IF startsWith(decl.prop, <<"-">>)
        THEN <<Candidate(stripVendorPrefix(decl.prop), "prefixed-property")>>
        ELSE <<>>)

\* CSSAnalyzer.analyzeSelector; the rule carries what postcss-selector-parser
\* finds in its selector, or the fact that the parser throws on it
analyzeSelector(rule) ==
  IF rule.selectorError THEN <<>>
  ELSE [i \in 1..Len(rule.pseudos) |-> Candidate(rule.pseudos[i], "pseudo-selector")]
       \o [i \in 1..Len(SelectSeq(rule.attributes, LAMBDA a : a # <<>>)) |->
             Candidate(<<"[">> \o SelectSeq(rule.attributes, LAMBDA a : a # <<>>)[i] \o <<"]">>,
                       "attribute-selector")]
       \o [i \in 1..Len(SelectSeq(rule.combinators,
                                    LAMBDA c : c = Str(">>>") \/ c = Str("/deep/"))) |->
             Candidate(Str("deep-combinator"), "combinator")]

mediaFeatures ==
  << Str("prefers-color-scheme"), Str("prefers-reduced-motion"), Str("prefers-contrast"),
     Str("hover"), Str("pointer"), Str("any-hover"), Str("any-pointer"),
     Str("display-mode"), Str("orientation"), Str("aspect-ratio") >>

\* CSSAnalyzer.analyzeMediaQuery
analyzeMediaQuery(query) ==
  LET found == SelectSeq(mediaFeatures, LAMBDA f : includes(query, f))
  IN [i \in 1..Len(found) |-> Candidate(found[i], "media-feature")]

\* /\(\s*([a-zA-Z-]+)\s*:/g : group 1 of the matches from position i on
RECURSIVE supportsProperties(_, _)
supportsProperties(query, i) ==
  IF i > Len(query) THEN <<>>
  ELSE LET a == RunEnd(query, i + 1, SpaceSet) + 1
           e == RunEnd(query, a, LetterSet \cup {"-"})
           c == RunEnd(query, e + 1, SpaceSet) + 1
       IN IF query[i] = "(" /\ e >= a /\ c <= Len(query) /\ query[c] = ":"
            THEN <<SubSeq(query, a, e)>> \o supportsProperties(query, c + 1)
            ELSE supportsProperties(query, i + 1)

\* CSSAnalyzer.analyzeSupportsQuery
analyzeSupportsQuery(query) ==
  LET found == supportsProperties(query, 1)
  IN [i \in 1..Len(found) |-> Candidate(found[i], "supports-property")]

\* CSSAnalyzer.analyzeAtRule
analyzeAtRule(atRule) ==
  <<Candidate(Str("@") \o atRule.name, "at-rule")>>
  \o (CASE atRule.name = Str("media") -> analyzeMediaQuery(atRule.params)
        [] atRule.name = Str("supports") -> analyzeSupportsQuery(atRule.params)
        [] atRule.name = Str("container") -> <<Candidate(Str("container-queries"), "at-rule")>>
        [] atRule.name = Str("layer") -> <<Candidate(Str("cascade-layers"), "at-rule")>>
        [] OTHER -> <<>>)

\* the candidates of one node, each with the node
withNode(cs, node) == [i \in 1..Len(cs) |-> [candidate |-> cs[i], node |-> node]]

\* the candidates of a stylesheet in the order they are checked: walkDecls,
\* then walkRules, then walkAtRules
CSSAnalyzer_candidates(root) ==
  Concat([n \in 1..Len(root.decls) |->
            withNode(analyzeDeclaration(root.decls[n]), root.decls[n])])
  \o Concat([n \in 1..Len(root.rules) |->
               withNode(analyzeSelector(root.rules[n]), root.rules[n])])
  \o Concat([n \in 1..Len(root.atRules) |->
               withNode(analyzeAtRule(root.atRules[n]), root.atRules[n])])

RECURSIVE CSSAnalyzer_usages(_, _, _, _)
CSSAnalyzer_usages(m, cfg, cands, filePath) ==
  IF cands = <<>> THEN <<>>
  ELSE CSSAnalyzer_checkFeature(m, cfg, Head(cands).candidate.featureId,
                                Head(cands).node, filePath, Head(cands).candidate.type)
       \o CSSAnalyzer_usages(m, cfg, Tail(cands), filePath)

\* CSSAnalyzer.analyze: a parse error is caught and leaves no usages
CSSAnalyzer_analyze(m, cfg, content, filePath) ==
  [file |-> filePath,
   type |-> "css",
   features |-> IF content.parseError THEN <<>>
                ELSE CSSAnalyzer_usages(m, cfg, CSSAnalyzer_candidates(content), filePath)]

(***************************************************************************)
(* Regular expressions of SimpleJavaScriptAnalyzer: a pattern is a set of  *)
(* alternatives, an alternative a sequence of elements, an element a       *)
(* character class (or its complement) taken once or any number of times.  *)
(***************************************************************************)
One(cls) == <<[cls |-> cls, neg |-> FALSE, star |-> FALSE]>>
Star(cls) == <<[cls |-> cls, neg |-> FALSE, star |-> TRUE]>>
StarNot(cls) == <<[cls |-> cls, neg |-> TRUE, star |-> TRUE]>>
Plus(cls) == One(cls) \o Star(cls)

\* a literal
L(text) == [i \in 1..Len(text) |-> [cls |-> {SubSeq(text, i, i)}, neg |-> FALSE, star |-> FALSE]]

\* new\s+Name
New(name) == L("new") \o Plus(SpaceSet) \o L(name)

\* the backquote character, which a TLA+ string cannot hold
Backtick == "backquote"

IdentifierStart == LetterSet \cup {"_", "$"}
IdentifierPart == IdentifierStart \cup DigitSet

accepts(element, c) == (c \in element.cls) # element.neg

\* elements k.. of the alternative match s from position i on
RECURSIVE matchAt(_, _, _, _)
matchAt(re, k, s, i) ==
  IF k > Len(re) THEN TRUE
  ELSE IF re[k].star
    THEN \/ matchAt(re, k + 1, s, i)
         \/ (i <= Len(s) /\ accepts(re[k], s[i]) /\ matchAt(re, k, s, i + 1))
    ELSE i <= Len(s) /\ accepts(re[k], s[i]) /\ matchAt(re, k + 1, s, i + 1)

\* RegExp.prototype.test
test(pattern, s) ==
  \E re \in pattern : \E i \in 1..(Len(s) + 1) : matchAt(re, 1, s, i)

Rule(pattern, feature) == [pattern |-> pattern, feature |-> Str(feature)]

syntaxPatterns ==
  << Rule({L("=>") \o Star(SpaceSet)}, "arrow-functions"),
     Rule({One({Backtick}) \o StarNot({Backtick}) \o L("${") \o StarNot({"}"}) \o L("}")
             \o StarNot({Backtick}) \o One({Backtick})}, "template-literals"),
     Rule({L("...") \o One(IdentifierStart) \o Star(IdentifierPart)}, "spread-syntax"),
     Rule({L("async") \o Plus(SpaceSet) \o L("function")}, "async-functions"),
     Rule({L("await") \o Plus(SpaceSet)}, "async-await"),
     Rule({L("??")}, "nullish-coalescing"),
     Rule({L("?.")}, "optional-chaining"),
     Rule({L("class") \o Plus(SpaceSet) \o One(IdentifierStart) \o Star(IdentifierPart)},
          "es6-class"),
     Rule({L("**")}, "exponentiation-operator") >>

apiPatterns ==
  <<
     Rule({L("fetch") \o Star(SpaceSet) \o L("(")}, "fetch"),
     Rule({New("Promise") \o Star(SpaceSet) \o L("(")}, "promises"),
     Rule({L("navigator.serviceWorker")}, "serviceworker"),
     Rule({L("navigator.geolocation")}, "geolocation"),
     Rule({L("navigator.share")}, "web-share"),
     Rule({L("navigator.clipboard")}, "clipboard-api"),
     Rule({L("localStorage."), L("sessionStorage.")}, "webstorage"),
     Rule({New("IntersectionObserver")}, "intersectionobserver"),
     Rule({New("ResizeObserver")}, "resizeobserver"),
     Rule({New("MutationObserver")}, "mutationobserver"),
     Rule({New("AbortController")}, "abortcontroller"),
     Rule({New("Map") \o Star(SpaceSet) \o L("(")}, "map"),
     Rule({New("Set") \o Star(SpaceSet) \o L("(")}, "set"),
     Rule({New("WeakMap")}, "weakmap"),
     Rule({New("WeakSet")}, "weakset"),
     Rule({L("Symbol") \o Star(SpaceSet) \o L("(")}, "symbol"),
     Rule({New("Proxy")}, "proxy"),
     Rule({L("requestAnimationFrame") \o Star(SpaceSet) \o L("(")}, "requestanimationframe"),
     Rule({New("URL") \o Star(SpaceSet) \o L("(")}, "url"),
     Rule({New("URLSearchParams")}, "url-api"),
     Rule({New("FormData")}, "formdata"),
     Rule({New("Blob")}, "blob"),
     Rule({New("FileReader")}, "filereader"),
     Rule({New("Worker")}, "web-workers"),
     Rule({New("WebSocket")}, "websockets"),
     Rule({New("EventSource")}, "eventsource"),
     Rule({New("XMLHttpRequest")}, "xhr") >>

arrayMethods ==
  << Str("find"), Str("findIndex"), Str("includes"), Str("entries"), Str("keys"),
     Str("values"), Str("map"), Str("filter"), Str("reduce"), Str("forEach"),
     Str("some"), Str("every"), Str("flat"), Str("flatMap"), Str("from"), Str("of") >>

stringMethods ==
  << Str("startsWith"), Str("endsWith"), Str("includes"), Str("repeat"), Str("padStart"),
     Str("padEnd"), Str("trim"), Str("trimStart"), Str("trimEnd"), Str("replaceAll") >>

objectMethods ==
  << Str("assign"), Str("keys"), Str("values"), Str("entries"), Str("fromEntries"),
     Str("getOwnPropertyDescriptors"), Str("hasOwn") >>

\* new RegExp of \.${method}\s*\(
methodPattern(method) ==
  { [i \in 1..(Len(method) + 1) |->
       [cls |-> {(<<".">> \o method)[i]}, neg |-> FALSE, star |-> FALSE]]
    \o Star(SpaceSet) \o L("(") }

\* new RegExp of Object\.${method}\s*\(
objectMethodPattern(method) ==
  { L("Object") \o CHOOSE re \in methodPattern(method) : TRUE }

\* a line analysis that passes an API token once for every place its pattern
\* matches at
analyzeLineForFeatures_perMatch(line) ==
  LET hitArray == SelectSeq(arrayMethods, LAMBDA mth : test(methodPattern(mth), line))
      hitString == SelectSeq(stringMethods, LAMBDA mth : test(methodPattern(mth), line))
      hitObject == SelectSeq(objectMethods, LAMBDA mth : test(objectMethodPattern(mth), line))
      hitSyntax == SelectSeq(syntaxPatterns, LAMBDA r : test(r.pattern, line))
      hitApi == SelectSeq(apiPatterns, LAMBDA r : test(r.pattern, line))
      places(r) == { i \in 1..(Len(line) + 1) : \E re \in r.pattern : matchAt(re, 1, line, i) }
  IN [i \in 1..Len(hitArray) |-> Str("array-") \o hitArray[i]]
     \o [i \in 1..Len(hitString) |-> Str("string-") \o hitString[i]]
     \o [i \in 1..Len(hitObject) |-> Str("object-") \o hitObject[i]]
     \o [i \in 1..Len(hitSyntax) |-> hitSyntax[i].feature]
     \o Concat([i \in 1..Len(hitApi) |->
                  [k \in 1..Cardinality(places(hitApi[i])) |-> hitApi[i].feature]])

\* the feature tokens analyzeLineForFeatures passes to addFeature for a line,
\* in the order it passes them
analyzeLineForFeatures(line) ==
  LET hitArray == SelectSeq(arrayMethods, LAMBDA mth : test(methodPattern(mth), line))
      hitString == SelectSeq(stringMethods, LAMBDA mth : test(methodPattern(mth), line))
      hitObject == SelectSeq(objectMethods, LAMBDA mth : test(objectMethodPattern(mth), line))
      hitSyntax == SelectSeq(syntaxPatterns, LAMBDA r : test(r.pattern, line))
      hitApi == SelectSeq(apiPatterns, LAMBDA r : test(r.pattern, line))
  IN [i \in 1..Len(hitArray) |-> Str("array-") \o hitArray[i]]
     \o [i \in 1..Len(hitString) |-> Str("string-") \o hitString[i]]
     \o [i \in 1..Len(hitObject) |-> Str("object-") \o hitObject[i]]
     \o [i \in 1..Len(hitSyntax) |-> hitSyntax[i].feature]
     \o [i \in 1..Len(hitApi) |-> hitApi[i].feature]

\* String.prototype.trim
trim(str) ==
  LET first == RunEnd(str, 1, SpaceSet) + 1
      lasts == { j \in first..Len(str) : str[j] \notin SpaceSet }
  IN IF first > Len(str) THEN <<>>
     ELSE SubSeq(str, first, CHOOSE j \in lasts : \A k \in lasts : k <= j)

SimpleJavaScriptAnalyzer_getPolyfillSuggestion(featureId) ==
  CASE featureId = Str("fetch") -> <<Str("whatwg-fetch polyfill")>>
    [] featureId = Str("promises") -> <<Str("es6-promise polyfill")>>
    [] featureId = Str("array-includes") -> <<Str("core-js polyfill")>>
    [] featureId = Str("object-assign") -> <<Str("object-assign polyfill")>>
    [] featureId = Str("symbol") -> <<Str("es6-symbol polyfill")>>
    [] featureId = Str("map") -> <<Str("es6-map polyfill")>>
    [] featureId = Str("set") -> <<Str("es6-set polyfill")>>
    [] featureId = Str("intersectionobserver") -> <<Str("intersection-observer polyfill")>>
    [] featureId = Str("resizeobserver") -> <<Str("resize-observer-polyfill")>>
    [] featureId = Str("web-audio-api") -> <<Str("web-audio-api polyfill")>>
    [] OTHER -> <<>>

SimpleJavaScriptAnalyzer_getAlternativeSuggestion(featureId) ==
  CASE featureId = Str("fetch") -> <<Str("Use XMLHttpRequest or axios library")>>
    [] featureId = Str("promises") -> <<Str("Use callback patterns or async libraries")>>
    [] featureId = Str("arrow-functions") -> <<Str("Use regular function expressions")>>
    [] featureId = Str("template-literals") -> <<Str("Use string concatenation")>>
    [] featureId = Str("optional-chaining") -> <<Str("Use manual null checking")>>
    [] featureId = Str("nullish-coalescing") ->
         <<Str("Use || operator with careful null checks")>>
    [] OTHER -> <<>>

\* an addFeature that reports the token whatever the matcher returns
addFeature_keepingUnmatched(m, cfg, featureId, context, lineNumber, filePath) ==
  LET result == checkFeature(m, cfg, featureId)
  IN << [feature |-> featureId,
         featureId |-> featureId,
         file |-> filePath,
         line |-> lineNumber,
         column |-> 0,
         context |-> sliceTo(trim(context), ContextLimit),
         baseline |-> result.baseline,
         browsers |-> result.browsers,
         severity |-> SimpleJavaScriptAnalyzer_determineSeverity(result.baseline,
                                                                result.meetsCriteria),
         suggestion |-> result.suggestion,
         polyfill |-> SimpleJavaScriptAnalyzer_getPolyfillSuggestion(featureId),
         alternative |-> SimpleJavaScriptAnalyzer_getAlternativeSuggestion(featureId)] >>

\* SimpleJavaScriptAnalyzer.addFeature: the usages one token adds to features
addFeature(m, cfg, featureId, context, lineNumber, filePath) ==
  LET result == checkFeature(m, cfg, featureId)
  IN IF result.baseline # "null"
       THEN << [feature |-> featureId,
                featureId |-> featureId,
                file |-> filePath,
                line |-> lineNumber,
                column |-> 0,
                context |-> sliceTo(trim(context), ContextLimit),
                baseline |-> result.baseline,
                browsers |-> result.browsers,
                severity |-> SimpleJavaScriptAnalyzer_determineSeverity(result.baseline,
                                                                       result.meetsCriteria),
                suggestion |-> result.suggestion,
                polyfill |-> SimpleJavaScriptAnalyzer_getPolyfillSuggestion(featureId),
                alternative |-> SimpleJavaScriptAnalyzer_getAlternativeSuggestion(featureId)] >>
       ELSE <<>>

\* content.split('\n')
RECURSIVE splitLines(_)
splitLines(content) ==
  LET n == IndexOfChar(content, "\n", 1)
  IN IF n = 0 THEN <<content>>
     ELSE <<SubSeq(content, 1, n - 1)>> \o splitLines(DropFirst(content, n))

\* filePath.split('.').pop()?.toLowerCase()
RECURSIVE lastDotPart(_)
lastDotPart(filePath) ==
  LET n == IndexOfChar(filePath, ".", 1)
  IN IF n = 0 THEN filePath ELSE lastDotPart(DropFirst(filePath, n))

getFileType(filePath) ==
  LET ext == toLowerCase(lastDotPart(filePath))
  IN CASE ext = Str("ts") -> "typescript"
       [] ext = Str("tsx") -> "tsx"
       [] ext = Str("jsx") -> "jsx"
       [] OTHER -> "javascript"

\* the usages of one line
lineUsages(m, cfg, line, lineNumber, filePath) ==
  LET tokens == analyzeLineForFeatures(line)
  IN Concat([i \in 1..Len(tokens) |->
               addFeature(m, cfg, tokens[i], line, lineNumber, filePath)])

\* SimpleJavaScriptAnalyzer.analyze
SimpleJavaScriptAnalyzer_analyze(m, cfg, content, filePath) ==
  LET lines == splitLines(content)
  IN [file |-> filePath,
      type |-> getFileType(filePath),
      features |-> Concat([i \in 1..Len(lines) |->
                             lineUsages(m, cfg, lines[i], i, filePath)])]

(***************************************************************************)
(* JavaScriptAnalyzer.  The program is given as @babel/parser parses it:   *)
(* the nodes that traverse visits, in the order it visits them, or a parse *)
(* error.  A node has its type and what the visitors read of it; a name is *)
(* <<>> when the child is not an identifier.                               *)
(***************************************************************************)
\* constructorFeatures of analyzeNewExpression
constructorFeatures(key) ==
  CASE key = Str("Promise") -> <<Str("promises")>>
    [] key = Str("Map") -> <<Str("map")>>
    [] key = Str("Set") -> <<Str("set")>>
    [] key = Str("WeakMap") -> <<Str("weakmap")>>
    [] key = Str("WeakSet") -> <<Str("weakset")>>
    [] key = Str("Symbol") -> <<Str("symbol")>>
    [] key = Str("Proxy") -> <<Str("proxy")>>
    [] key = Str("IntersectionObserver") -> <<Str("intersectionobserver")>>
    [] key = Str("ResizeObserver") -> <<Str("resizeobserver")>>
    [] key = Str("MutationObserver") -> <<Str("mutationobserver")>>
    [] key = Str("AbortController") -> <<Str("abortcontroller")>>
    [] key = Str("URL") -> <<Str("url")>>
    [] key = Str("URLSearchParams") -> <<Str("url-api")>>
    [] key = Str("FormData") -> <<Str("formdata")>>
    [] key = Str("Blob") -> <<Str("blob")>>
    [] key = Str("File") -> <<Str("file-api")>>
    [] key = Str("FileReader") -> <<Str("filereader")>>
    [] key = Str("Worker") -> <<Str("web-workers")>>
    [] key = Str("ServiceWorker") -> <<Str("serviceworker")>>
    [] key = Str("WebSocket") -> <<Str("websockets")>>
    [] key = Str("EventSource") -> <<Str("eventsource")>>
    [] key = Str("XMLHttpRequest") -> <<Str("xhr")>>
    [] key = Str("MediaRecorder") -> <<Str("mediastream-recording")>>
    [] key = Str("AudioContext") -> <<Str("web-audio-api")>>
    [] key = Str("OffscreenCanvas") -> <<Str("offscreencanvas")>>
    [] OTHER -> <<>>

\* globalFeatures of analyzeCallExpression
globalFeatures(key) ==
  CASE key = Str("fetch") -> <<Str("fetch")>>
    [] key = Str("Promise") -> <<Str("promises")>>
    [] key = Str("requestAnimationFrame") -> <<Str("requestanimationframe")>>
    [] key = Str("setTimeout") -> <<Str("settimeout")>>
    [] key = Str("setInterval") -> <<Str("setinterval")>>
    [] OTHER -> <<>>

\* featureMap of analyzeMemberExpression
memberFeatureMap(key) ==
  CASE key = Str("performance.now") -> <<Str("high-resolution-time")>>
    [] key = Str("crypto.getRandomValues") -> <<Str("web-crypto-api")>>
    [] key = Str("URL.createObjectURL") -> <<Str("url-api")>>
    [] key = Str("FormData.append") -> <<Str("formdata")>>
    [] key = Str("Blob.arrayBuffer") -> <<Str("blob")>>
    [] key = Str("Request.signal") -> <<Str("abort-controller")>>
    [] OTHER -> <<>>

\* apiMap of mapApiToFeature
apiMap(key) ==
  CASE key = Str("navigator.serviceWorker") -> <<Str("serviceworker")>>
    [] key = Str("navigator.geolocation") -> <<Str("geolocation")>>
    [] key = Str("navigator.mediaDevices") -> <<Str("getusermedia")>>
    [] key = Str("navigator.share") -> <<Str("web-share")>>
    [] key = Str("navigator.clipboard") -> <<Str("clipboard-api")>>
    [] key = Str("window.fetch") -> <<Str("fetch")>>
    [] key = Str("window.requestAnimationFrame") -> <<Str("requestanimationframe")>>
    [] key = Str("window.IntersectionObserver") -> <<Str("intersectionobserver")>>
    [] key = Str("window.ResizeObserver") -> <<Str("resizeobserver")>>
    [] key = Str("localStorage.getItem") -> <<Str("webstorage")>>
    [] key = Str("sessionStorage.getItem") -> <<Str("webstorage")>>
    [] OTHER -> <<>>

webApis ==
  { Str("navigator"), Str("document"), Str("window"), Str("console"),
    Str("localStorage"), Str("sessionStorage") }

\* api.toLowerCase().replace('.', '-')
dotToHyphen(api) ==
  LET lower == toLowerCase(api)
      n == IndexOfChar(lower, ".", 1)
  IN IF n = 0 THEN lower ELSE [lower EXCEPT ![n] = "-"]

mapApiToFeature(api) ==
  IF apiMap(api) # <<>> THEN apiMap(api)[1] ELSE dotToHyphen(api)

JavaScriptAnalyzer_arrayMethods ==
  << Str("find"), Str("findIndex"), Str("includes"), Str("entries"), Str("keys"),
     Str("values"), Str("map"), Str("filter"), Str("reduce"), Str("forEach"), Str("some"),
     Str("every"), Str("flat"), Str("flatMap"), Str("from"), Str("of") >>

JavaScriptAnalyzer_stringMethods ==
  << Str("startsWith"), Str("endsWith"), Str("includes"), Str("repeat"), Str("padStart"),
     Str("padEnd"), Str("trim"), Str("trimStart"), Str("trimEnd"), Str("replaceAll") >>

JavaScriptAnalyzer_objectMethods ==
  << Str("assign"), Str("keys"), Str("values"), Str("entries"), Str("fromEntries"),
     Str("getOwnPropertyDescriptors"), Str("hasOwn") >>

\* Array.prototype.includes
inSeq(seq, x) == \E k \in 1..Len(seq) : seq[k] = x

\* what a visitor does on a node: the tokens it checks, in order, and whether
\* it then throws (a table lookup that yields an inherited function is passed
\* to checkFeature, where toLowerCase is not a function)
Visit(tokens, throws) == [tokens |-> tokens, throws |-> throws]

analyzeMemberExpression(node) ==
  Visit(
    (IF /\ node.object # <<>>
        /\ (node.object \in webApis \/ node.object \in ObjectPrototypeKeys)
        /\ node.property # <<>>
       THEN <<Candidate(mapApiToFeature(node.object \o <<".">> \o node.property), "api")>>
       ELSE <<>>)
    \o (IF /\ node.object # <<>>
           /\ node.property # <<>>
           /\ memberFeatureMap(node.object \o <<".">> \o node.property) # <<>>
          THEN <<Candidate(memberFeatureMap(node.object \o <<".">> \o node.property)[1], "api")>>
          ELSE <<>>),
    FALSE)

analyzeCallExpression(node) ==
  IF node.callee # <<>> /\ node.callee \in ObjectPrototypeKeys
    THEN Visit(<<>>, TRUE)
  ELSE Visit(
    (IF node.callee # <<>> /\ globalFeatures(node.callee) # <<>>
       THEN <<Candidate(globalFeatures(node.callee)[1], "api")>>
       ELSE <<>>)
    \o (IF node.calleeProperty # <<>>
          THEN (IF inSeq(JavaScriptAnalyzer_arrayMethods, node.calleeProperty)
                  THEN <<Candidate(Str("array-") \o node.calleeProperty, "method")>> ELSE <<>>)
               \o (IF inSeq(JavaScriptAnalyzer_stringMethods, node.calleeProperty)
                     THEN <<Candidate(Str("string-") \o node.calleeProperty, "method")>>
                     ELSE <<>>)
               \o (IF /\ node.calleeObject = Str("Object")
                      /\ inSeq(JavaScriptAnalyzer_objectMethods, node.calleeProperty)
                     THEN <<Candidate(Str("object-") \o node.calleeProperty, "method")>>
                     ELSE <<>>)
          ELSE <<>>),
    FALSE)

analyzeNewExpression(node) ==
  IF node.callee # <<>> /\ node.callee \in ObjectPrototypeKeys
    THEN Visit(<<>>, TRUE)
  ELSE Visit(
    IF node.callee # <<>> /\ constructorFeatures(node.callee) # <<>>
      THEN <<Candidate(constructorFeatures(node.callee)[1], "constructor")>>
      ELSE <<>>,
    FALSE)

\* the node types the alias visitors Function and ExportDeclaration cover
FunctionTypes ==
  { "FunctionDeclaration", "FunctionExpression", "ArrowFunctionExpression",
    "ObjectMethod", "ClassMethod", "ClassPrivateMethod" }

ExportDeclarationTypes ==
  { "ExportAllDeclaration", "ExportDefaultDeclaration", "ExportNamedDeclaration" }

Syntax(token) == <<Candidate(Str(token), "syntax")>>

\* the visitors of the traverse call in analyze, for one node
visitNode(node) ==
  CASE node.type = "MemberExpression" -> analyzeMemberExpression(node)
    [] node.type = "CallExpression" -> analyzeCallExpression(node)
    [] node.type = "NewExpression" -> analyzeNewExpression(node)
    [] OTHER ->
       Visit(
         (CASE node.type = "ArrowFunctionExpression" -> Syntax("arrow-functions")
            [] node.type = "ClassDeclaration" -> Syntax("es6-class")
            [] node.type = "TemplateLiteral" -> Syntax("template-literals")
            [] node.type = "RestElement" -> Syntax("rest-parameters")
            [] node.type = "SpreadElement" -> Syntax("spread-syntax")
            [] node.type = "AwaitExpression" -> Syntax("async-await")
            [] node.type = "BinaryExpression" /\ node.operator = "**" ->
                 <<Candidate(Str("exponentiation-operator"), "operator")>>
            [] node.type = "LogicalExpression" /\ node.operator = "??" ->
                 <<Candidate(Str("nullish-coalescing"), "operator")>>
            [] node.type = "OptionalMemberExpression" -> Syntax("optional-chaining")
            [] node.type = "ImportDeclaration" -> Syntax("es6-modules")
            [] node.type \in ExportDeclarationTypes -> Syntax("es6-modules")
            [] node.type = "ObjectPattern" -> Syntax("destructuring-assignment")
            [] node.type = "ArrayPattern" -> Syntax("destructuring-assignment")
            [] OTHER -> <<>>)
         \o (IF node.type \in FunctionTypes /\ node.async
               THEN Syntax("async-functions") ELSE <<>>),
         FALSE)

JavaScriptAnalyzer_getContext(node, type) ==
  CASE node.type = "MemberExpression" ->
         (IF node.object # <<>> THEN node.object ELSE Str("object"))
         \o <<".">>
         \o (IF node.property # <<>> THEN node.property ELSE Str("property"))
    [] node.type = "CallExpression" /\ node.callee # <<>> -> node.callee \o Str("()")
    [] node.type = "NewExpression" /\ node.callee # <<>> ->
         Str("new ") \o node.callee \o Str("()")
    [] OTHER -> Str(type)

\* polyfills of JavaScriptAnalyzer.getPolyfillSuggestion
JavaScriptAnalyzer_getPolyfillSuggestion(featureId) ==
  CASE featureId = Str("fetch") -> <<Str("whatwg-fetch polyfill")>>
    [] featureId = Str("promises") -> <<Str("es6-promise polyfill")>>
    [] featureId = Str("array-includes") -> <<Str("core-js polyfill")>>
    [] featureId = Str("object-assign") -> <<Str("object-assign polyfill")>>
    [] featureId = Str("symbol") -> <<Str("es6-symbol polyfill")>>
    [] featureId = Str("map") -> <<Str("es6-map polyfill")>>
    [] featureId = Str("set") -> <<Str("es6-set polyfill")>>
    [] featureId = Str("intersectionobserver") -> <<Str("intersection-observer polyfill")>>
    [] featureId = Str("resizeobserver") -> <<Str("resize-observer-polyfill")>>
    [] featureId = Str("web-audio-api") -> <<Str("web-audio-api polyfill")>>
    [] OTHER -> <<>>

\* alternatives of JavaScriptAnalyzer.getAlternativeSuggestion
JavaScriptAnalyzer_getAlternativeSuggestion(featureId) ==
  CASE featureId = Str("fetch") -> <<Str("Use XMLHttpRequest or axios library")>>
    [] featureId = Str("promises") -> <<Str("Use callback patterns or async libraries")>>
    [] featureId = Str("arrow-functions") -> <<Str("Use regular function expressions")>>
    [] featureId = Str("template-literals") -> <<Str("Use string concatenation")>>
    [] featureId = Str("destructuring-assignment") -> <<Str("Use manual assignment")>>
    [] featureId = Str("optional-chaining") -> <<Str("Use manual null checking")>>
    [] featureId = Str("nullish-coalescing") -> <<Str("Use || operator with careful null checks")>>
    [] OTHER -> <<>>

\* JavaScriptAnalyzer.checkFeature: the usages one candidate adds to features
JavaScriptAnalyzer_checkFeature(m, cfg, featureId, node, filePath, type) ==
  LET result == checkFeature(m, cfg, featureId)
  IN IF result.baseline # "null"
       THEN << [feature |-> featureId,
                featureId |-> featureId,
                file |-> filePath,
                line |-> node.line,
                column |-> node.column,
                context |-> JavaScriptAnalyzer_getContext(node, type),
                baseline |-> result.baseline,
                browsers |-> result.browsers,
                severity |-> JavaScriptAnalyzer_determineSeverity(result.baseline,
                                                                 result.meetsCriteria),
                suggestion |-> result.suggestion,
                polyfill |-> JavaScriptAnalyzer_getPolyfillSuggestion(featureId),
                alternative |-> JavaScriptAnalyzer_getAlternativeSuggestion(featureId)] >>
       ELSE <<>>

\* the usages of the traversal from node i on; a throw ends the traversal and
\* keeps what was pushed before it
RECURSIVE traverse(_, _, _, _, _)
traverse(m, cfg, nodes, i, filePath) ==
  IF i > Len(nodes) THEN <<>>
  ELSE LET v == visitNode(nodes[i])
       IN Concat([k \in 1..Len(v.tokens) |->
                    JavaScriptAnalyzer_checkFeature(m, cfg, v.tokens[k].featureId, nodes[i],
                                                    filePath, v.tokens[k].type)])
          \o (IF v.throws THEN <<>> ELSE traverse(m, cfg, nodes, i + 1, filePath))

\* String.prototype.endsWith
endsWith(str, suffix) ==
  Len(suffix) <= Len(str) /\ SubSeq(str, Len(str) - Len(suffix) + 1, Len(str)) = suffix

\* JavaScriptAnalyzer.analyze: a parse error is caught and leaves no usages
JavaScriptAnalyzer_analyze(m, cfg, ast, filePath) ==
  [file |-> filePath,
   type |-> IF endsWith(filePath, Str(".ts")) \/ endsWith(filePath, Str(".tsx"))
              THEN "typescript" ELSE "javascript",
   features |-> IF ast.parseError THEN <<>> ELSE traverse(m, cfg, ast.nodes, 1, filePath)]

(***************************************************************************)
(* Analyzer.  A file of the project is its path, whether fs.readFile can   *)
(* read it, and its content: the stylesheet as postcss parses it for a     *)
(* style file, the text for a script file.                                 *)
(***************************************************************************)
RECURSIVE LastIndexOfChar(_, _, _)
LastIndexOfChar(s, c, i) ==
  IF i = 0 THEN 0
  ELSE IF s[i] = c THEN i
  ELSE LastIndexOfChar(s, c, i - 1)

\* path.extname: from the last dot of the base name on; empty when the base
\* name has no dot or only a leading one
extname(filePath) ==
  LET base == DropFirst(filePath, LastIndexOfChar(filePath, "/", Len(filePath)))
      dot == LastIndexOfChar(base, ".", Len(base))
  IN IF dot <= 1 THEN <<>> ELSE DropFirst(base, dot - 1)

styleExtensions == { Str(".css"), Str(".scss"), Str(".sass"), Str(".less") }
scriptExtensions == { Str(".js"), Str(".jsx"), Str(".ts"), Str(".tsx") }

\* Analyzer.findFiles: the filter applied to what glob returns
findFiles(globbed) ==
  SelectSeq(globbed,
            LAMBDA file : toLowerCase(extname(file.path))
                            \in scriptExtensions \cup styleExtensions)

\* Analyzer.analyzeFile: the analysis, or the fact that it throws
analyzeFile(m, cfg, file) ==
  LET ext == toLowerCase(extname(file.path))
  IN IF ~file.readable THEN [threw |-> TRUE]
     ELSE [threw |-> FALSE,
           analysis |->
             IF ext \in styleExtensions
               THEN CSSAnalyzer_analyze(m, cfg, file.css, file.path)
             ELSE IF ext \in scriptExtensions
               THEN SimpleJavaScriptAnalyzer_analyze(m, cfg, file.text, file.path)
             ELSE [file |-> file.path, type |-> "javascript", features |-> <<>>]]

\* a loop body that gives up the analyses collected so far when a file throws
analyzeNext_abortingOnFailure(m, cfg, fileAnalyses, file) ==
  LET outcome == analyzeFile(m, cfg, file)
  IN IF outcome.threw THEN <<>>
     ELSE IF Len(outcome.analysis.features) > 0
       THEN Append(fileAnalyses, outcome.analysis)
     ELSE fileAnalyses

\* the body of the loop of Analyzer.analyzeProject for one file
analyzeNext(m, cfg, fileAnalyses, file) ==
  LET outcome == analyzeFile(m, cfg, file)
  IN IF ~outcome.threw /\ Len(outcome.analysis.features) > 0
       THEN Append(fileAnalyses, outcome.analysis)
       ELSE fileAnalyses

\* Math.floor(x / n)
Round_down(x, n) == x \div n

\* Math.round(x / n) for integers x >= 0 and n > 0
Round(x, n) == (2 * x + n) \div (2 * n)

points(feature) ==
  CASE feature.baseline = "widely-available" -> 100
    [] feature.baseline = "newly-available" -> 75
    [] feature.baseline = "limited" -> 25
    [] OTHER -> 50

RECURSIVE sumPoints(_)
sumPoints(fs) == IF fs = <<>> THEN 0 ELSE points(Head(fs)) + sumPoints(Tail(fs))

\* a score that gives the empty list the mean of no points
calculateCompatibilityScore_emptyIsZero(fs) ==
  IF Len(fs) = 0 THEN 0 ELSE Round(sumPoints(fs), Len(fs))

\* Analyzer.calculateCompatibilityScore
calculateCompatibilityScore(fs) ==
  IF Len(fs) = 0 THEN 100 ELSE Round(sumPoints(fs), Len(fs))

\* /\.(css|scss|sass|less)$/ and /\.(js|jsx|ts|tsx)$/ and /\.(html|htm)$/
hasSuffixIn(file, suffixes) == \E x \in suffixes : endsWith(file, x)

\* Analyzer.groupFeaturesByType
groupFeaturesByType(fs) ==
  [css |-> SelectSeq(fs, LAMBDA f : hasSuffixIn(f.file, styleExtensions)),
   javascript |-> SelectSeq(fs, LAMBDA f : hasSuffixIn(f.file, scriptExtensions)),
   html |-> SelectSeq(fs, LAMBDA f : hasSuffixIn(f.file, {Str(".html"), Str(".htm")}))]

floatSuggestion ==
  [category |-> "css", oldFeature |-> "Float-based layouts",
   newFeature |-> "CSS Grid/Flexbox", baselineStatus |-> "widely-available",
   impact |-> "high", effort |-> "medium"]

fetchSuggestion ==
  [category |-> "javascript", oldFeature |-> "XMLHttpRequest",
   newFeature |-> "Fetch API", baselineStatus |-> "widely-available",
   impact |-> "medium", effort |-> "low"]

modernCssSuggestion ==
  [category |-> "css", oldFeature |-> "Legacy layout techniques",
   newFeature |-> "Modern CSS features", baselineStatus |-> "newly-available",
   impact |-> "high", effort |-> "medium"]

modernCssNames ==
  { Str("container-queries"), Str("cascade-layers"), Str("css-grid"), Str("flexbox") }

\* suggestions decided by the first usage of the merged list alone
generateModernizationSuggestions_fromFirstUsage(fs) ==
  LET first == IF fs = <<>> THEN <<>> ELSE <<Head(fs)>>
      featureGroups == groupFeaturesByType(first)
      modernCssFeatures ==
        SelectSeq(first, LAMBDA f : f.baseline = "newly-available"
                                      /\ f.feature \in modernCssNames)
  IN (IF \E i \in 1..Len(featureGroups.css) :
            includes(featureGroups.css[i].feature, Str("float"))
        THEN <<floatSuggestion>> ELSE <<>>)
     \o (IF \E i \in 1..Len(featureGroups.javascript) :
               featureGroups.javascript[i].feature = Str("xhr")
           THEN <<fetchSuggestion>> ELSE <<>>)
     \o (IF Len(modernCssFeatures) > 0 THEN <<modernCssSuggestion>> ELSE <<>>)

\* Analyzer.generateModernizationSuggestions
generateModernizationSuggestions(fs) ==
  LET featureGroups == groupFeaturesByType(fs)
      modernCssFeatures ==
        SelectSeq(fs, LAMBDA f : f.baseline = "newly-available"
                                   /\ f.feature \in modernCssNames)
  IN (IF \E i \in 1..Len(featureGroups.css) :
            includes(featureGroups.css[i].feature, Str("float"))
        THEN <<floatSuggestion>> ELSE <<>>)
     \o (IF \E i \in 1..Len(featureGroups.javascript) :
               featureGroups.javascript[i].feature = Str("xhr")
           THEN <<fetchSuggestion>> ELSE <<>>)
     \o (IF Len(modernCssFeatures) > 0 THEN <<modernCssSuggestion>> ELSE <<>>)

\* a report that counts the errors among the warnings as well
generateReport_errorsAlsoWarnings(fileAnalyses) ==
  LET allFeatures == Concat([i \in 1..Len(fileAnalyses) |-> fileAnalyses[i].features])
      violations == SelectSeq(allFeatures, LAMBDA f : f.severity = "error")
      warnings == SelectSeq(allFeatures, LAMBDA f : f.severity # "info")
      suggestions == SelectSeq(allFeatures, LAMBDA f : f.severity = "info")
  IN [totalFiles |-> Len(fileAnalyses),
      totalFeatures |-> Len(allFeatures),
      violations |-> violations,
      warnings |-> warnings,
      suggestions |-> suggestions,
      summary |-> [errors |-> Len(violations),
                   warnings |-> Len(warnings),
                   suggestions |-> Len(suggestions),
                   compatibilityScore |-> calculateCompatibilityScore(allFeatures)],
      modernizationOpportunities |-> generateModernizationSuggestions(allFeatures)]

\* Analyzer.generateReport
generateReport(fileAnalyses) ==
  LET allFeatures == Concat([i \in 1..Len(fileAnalyses) |-> fileAnalyses[i].features])
      violations == SelectSeq(allFeatures, LAMBDA f : f.severity = "error")
      warnings == SelectSeq(allFeatures, LAMBDA f : f.severity = "warning")
      suggestions == SelectSeq(allFeatures, LAMBDA f : f.severity = "info")
  IN [totalFiles |-> Len(fileAnalyses),
      totalFeatures |-> Len(allFeatures),
      violations |-> violations,
      warnings |-> warnings,
      suggestions |-> suggestions,
      summary |-> [errors |-> Len(violations),
                   warnings |-> Len(warnings),
                   suggestions |-> Len(suggestions),
                   compatibilityScore |-> calculateCompatibilityScore(allFeatures)],
      modernizationOpportunities |-> generateModernizationSuggestions(allFeatures)]

(***************************************************************************)
(* JSONReporter.calculateRiskScore.  The numbers of JavaScript are IEEE    *)
(* 754 doubles: a positive double is its significand, DoublePrecision bits *)
(* from the leading one on, and the exponent of that leading bit; the      *)
(* results of / and * are rounded to the nearest double, ties to even.     *)
(***************************************************************************)
DoublePrecision == 53

Zero == [zero |-> TRUE, exp |-> 0, bits |-> <<>>]

Zeros(n) == [i \in 1..n |-> 0]

\* the double nearest to the number whose bits, from its leading one on,
\* are bits (more than DoublePrecision of them) and whose leading bit has
\* exponent exp
RoundToDouble(bits, exp) ==
  LET kept == SubSeq(bits, 1, DoublePrecision)
      guard == bits[DoublePrecision + 1]
      sticky == \E j \in (DoublePrecision + 2)..Len(bits) : bits[j] = 1
      up == guard = 1 /\ (sticky \/ kept[DoublePrecision] = 1)
  IN IF ~up THEN [zero |-> FALSE, exp |-> exp, bits |-> kept]
     ELSE IF \A i \in 1..DoublePrecision : kept[i] = 1
       THEN [zero |-> FALSE, exp |-> exp + 1, bits |-> <<1>> \o Zeros(DoublePrecision - 1)]
     ELSE LET last == CHOOSE j \in 1..DoublePrecision :
                        kept[j] = 0 /\ \A l \in (j + 1)..DoublePrecision : kept[l] = 1
          IN [zero |-> FALSE, exp |-> exp,
              bits |-> [i \in 1..DoublePrecision |->
                          IF i < last THEN kept[i] ELSE IF i = last THEN 1 ELSE 0]]

\* long division: the next n bits of rem / d, for 0 <= rem < d
RECURSIVE QuotientBits(_, _, _)
QuotientBits(rem, d, n) ==
  IF n = 0 THEN <<>>
  ELSE IF 2 * rem >= d THEN <<1>> \o QuotientBits(2 * rem - d, d, n - 1)
  ELSE <<0>> \o QuotientBits(2 * rem, d, n - 1)

\* what is left of rem / d after n bits
RECURSIVE RemainderAfter(_, _, _)
RemainderAfter(rem, d, n) ==
  IF n = 0 THEN rem
  ELSE IF 2 * rem >= d THEN RemainderAfter(2 * rem - d, d, n - 1)
  ELSE RemainderAfter(2 * rem, d, n - 1)

\* the number of doublings that bring a to d or above, for 0 < a <= d
RECURSIVE Doublings(_, _)
Doublings(a, d) == IF a >= d THEN 0 ELSE 1 + Doublings(2 * a, d)

RECURSIVE TwoToThe(_)
TwoToThe(k) == IF k = 0 THEN 1 ELSE 2 * TwoToThe(k - 1)

\* a / d for integers 0 <= a <= d, d > 0
NumberDivide(a, d) ==
  IF a = 0 THEN Zero
  ELSE LET k == Doublings(a, d)
           first == a * TwoToThe(k) - d
           more == QuotientBits(first, d, DoublePrecision)
           left == RemainderAfter(first, d, DoublePrecision)
       IN RoundToDouble(<<1>> \o more \o <<IF left # 0 THEN 1 ELSE 0>>, -k)

RECURSIVE BitsValue(_)
BitsValue(bits) ==
  IF bits = <<>> THEN 0
  ELSE 2 * BitsValue(SubSeq(bits, 1, Len(bits) - 1)) + bits[Len(bits)]

\* the n bits of v, leading bit first
IntegerBits(v, n) == [i \in 1..n |-> (v \div TwoToThe(n - i)) % 2]

\* x * 100, the significand taken in three parts of at most 18 bits so
\* that no part of the product leaves the integers
NumberTimes100(x) ==
  IF x.zero THEN Zero
  ELSE LET part == 18
           base == TwoToThe(part)
           low == 100 * BitsValue(SubSeq(x.bits, DoublePrecision - part + 1, DoublePrecision))
           middle == 100 * BitsValue(SubSeq(x.bits, DoublePrecision - 2 * part + 1,
                                            DoublePrecision - part))
                       + low \div base
           high == 100 * BitsValue(SubSeq(x.bits, 1, DoublePrecision - 2 * part))
                     + middle \div base
           product == IntegerBits(high, DoublePrecision - 2 * part + 7)
                        \o IntegerBits(middle % base, part)
                        \o IntegerBits(low % base, part)
       IN IF product[1] = 1 THEN RoundToDouble(product, x.exp + 7)
          ELSE RoundToDouble(Tail(product), x.exp + 6)

\* Math.round for a double x >= 0 below 2^31: the integer part, and one more
\* when the fraction is a half or above
MathRound(x) ==
  IF x.zero \/ x.exp < -1 THEN 0
  ELSE BitsValue(SubSeq(x.bits, 1, x.exp + 1)) + x.bits[x.exp + 2]

\* of the result, calculateRiskScore reads the counts only
calculateRiskScore(result) ==
  LET errorWeight == 3
      warningWeight == 1
      totalRisk == result.summary.errors * errorWeight
                     + result.summary.warnings * warningWeight
      maxPossibleRisk == result.totalFeatures * errorWeight
  IN IF maxPossibleRisk = 0 THEN 0
     ELSE MathRound(NumberTimes100(NumberDivide(totalRisk, maxPossibleRisk)))

(***************************************************************************)
(* Inputs: the tokens handed to the point-query entry point, the datasets  *)
(* projects are analysed with, the files and the programs.                 *)
(***************************************************************************)
Tokens ==
  { Str(t) : t \in
    { "", "flexbox", "flex", "Flex", "css-flexbox",
      "transform", "-webkit-transform", "-moz-transform", "-o-transform",
      "backgroundColor", "background-color",
      "container-queries", "@container", "container",
      "transforms", "2d", "non-existent-feature", "properties.f", "rules",
      "api.xmlhttprequest" } }

MaxFiles == 2
MaxUsages == 3
\* entries of a list handed to getModernizationSuggestions
MaxLegacy == 2

\* usages of a result handed to calculateRiskScore
MaxCounted == 40

\* the results calculateRiskScore is applied to: of a result it reads the
\* counts only; errors, warnings and suggestions partition the usages
Results ==
  UNION { UNION { { [totalFeatures |-> n,
                     summary |-> [errors |-> e, warnings |-> w,
                                  suggestions |-> n - e - w]] : w \in 0..(n - e) } :
                  e \in 0..n } :
          n \in 0..MaxCounted }

\* the lists of legacy feature names a caller asks suggestions for
LegacyLists ==
  UNION { [1..n -> { Str("float"), Str("clearfix"), Str("position: absolute"),
                     Str("grid"), Str("constructor") }] : n \in 0..MaxLegacy }

ProjectDatasets ==
  { << Feature("flexbox", "Flexbox", Status("high", DesktopSupport("29")),
               <<"css.properties.flex">>),
       Feature("container-queries", "Container queries",
               Status("low", DesktopSupport("105")), <<"css.at-rules.container">>),
       Feature("float", "Float", Status("false", NoSupport),
               <<"css.properties.float", "css.properties.clear">>),
       Feature("xhr", "XMLHttpRequest", Status("high", DesktopSupport("2")),
               <<"api.XMLHttpRequest">>) >>,
    << Feature("container-queries", "Container queries",
               Status("false", DesktopSupport("106")), <<"css.at-rules.container">>),
       Feature("flexbox", "Flexbox", Status("high", DesktopSupport("29")),
               <<"css.properties.display.flex", "css.properties.flex">>),
       Feature("transforms2d", "2D transforms", Status("high", DesktopSupport("36")),
               <<"css.properties.transform">>),
       Feature("fetch", "Fetch", Status("low", DesktopSupport("42")), <<"api.fetch">>),
       Feature("xhr", "XMLHttpRequest", Status("false", DesktopSupport("2")),
               <<"api.XMLHttpRequest">>) >>,
    << Feature("transforms2d", "2D transforms", NoStatus, <<"css.properties.transform">>),
       Feature("fetch", "Fetch", Status("false", DesktopSupport("42")), <<"api.fetch">>) >> }

Decl(prop, value, text, line, column) ==
  [prop |-> Str(prop), value |-> Str(value), text |-> Str(text),
   line |-> line, column |-> column]

RuleNode(selector, pseudos, line, column) ==
  [selector |-> Str(selector), pseudos |-> pseudos, attributes |-> <<>>,
   combinators |-> <<>>, selectorError |-> FALSE, text |-> Str(selector),
   line |-> line, column |-> column]

AtRule(name, params, line, column) ==
  [name |-> Str(name), params |-> Str(params), text |-> Str("@" \o name \o " " \o params),
   line |-> line, column |-> column]

Root(decls, rules, atRules) ==
  [parseError |-> FALSE, decls |-> decls, rules |-> rules, atRules |-> atRules]

NoRoot == [parseError |-> TRUE, decls |-> <<>>, rules |-> <<>>, atRules |-> <<>>]

StyleFile(filePath, root) ==
  [path |-> Str(filePath), readable |-> TRUE, css |-> root, text |-> <<>>]

ScriptFile(filePath, readable, text) ==
  [path |-> Str(filePath), readable |-> readable, css |-> NoRoot, text |-> Str(text)]

appCss ==
  StyleFile("src/app.css",
            Root(<< Decl("float", "left", "float: left", 1, 6),
                    Decl("display", "flex", "display:flex", 1, 19),
                    Decl("flex", "1", "flex:1", 1, 32),
                    Decl("padding", "2rem", "padding:2rem", 2, 36) >>,
                 << RuleNode(".a", <<>>, 1, 1), RuleNode(".a:hover", <<Str(":hover")>>, 2, 33) >>,
                 << AtRule("container", "(min-width:400px)", 2, 1) >>))

legacyScss ==
  StyleFile("src/legacy.scss",
            Root(<< Decl("-webkit-transform", "rotate(45deg)",
                         "-webkit-transform: rotate(45deg)", 3, 3),
                    Decl("clear", "both", "clear: both", 4, 3) >>,
                 << RuleNode(".b", <<>>, 2, 1) >>,
                 << >>))

\* .a{display:flex} @container (min-width:400px){.a{padding:2rem}}
exampleCss ==
  StyleFile("src/example.css",
            Root(<< Decl("display", "flex", "display:flex", 1, 4),
                    Decl("padding", "2rem", "padding:2rem", 1, 50) >>,
                 << RuleNode(".a", <<>>, 1, 1), RuleNode(".a", <<>>, 1, 47) >>,
                 << AtRule("container", "(min-width:400px)", 1, 18) >>))

\* a container query whose condition is longer than the context limit
longCss ==
  StyleFile("src/long.css",
            Root(<< Decl("padding", "2rem", "padding:2rem", 3, 8) >>,
                 << RuleNode(".a", <<>>, 3, 5) >>,
                 << AtRule("container",
                           "(min-width: 400px) and (max-width: 1200px) and (min-height: 300px) and (max-height: 900px) and (orientation: landscape)",
                           1, 1) >>))

brokenCss == StyleFile("src/broken.css", NoRoot)

printCss ==
  StyleFile("legacy/PRINT.CSS",
            Root(<< Decl("float", "none", "float: none", 1, 8) >>,
                 << RuleNode("img", <<>>, 1, 1) >>, << >>))

apiJs == ScriptFile("src/api.js", TRUE, "const r = new XMLHttpRequest();\nfetch(u)")

typesTs == ScriptFile("src/types.ts", TRUE, "let n = 1")

\* a line on which a pattern matches twice and several patterns match
twiceJs ==
  ScriptFile("src/twice.js", TRUE,
             "fetch(a).then(r => new XMLHttpRequest()); fetch(b)\nfetch(c)")

goneJsx == ScriptFile("src/gone.jsx", FALSE, "")

readme == ScriptFile("README.md", TRUE, "fetch(u)")

FilePool == { appCss, legacyScss, brokenCss, printCss, apiJs, typesTs, goneJsx, readme }

\* what glob can return: the files of a project, in some order
Globbed ==
  UNION { { fs \in [1..n -> FilePool] : \A i, j \in 1..n : i # j => fs[i] # fs[j] } :
          n \in 0..MaxFiles }

AstNode(type, line, column) ==
  [type |-> type, async |-> FALSE, operator |-> "", object |-> <<>>, property |-> <<>>,
   callee |-> <<>>, calleeObject |-> <<>>, calleeProperty |-> <<>>,
   line |-> line, column |-> column]

NewOf(name, line, column) ==
  [AstNode("NewExpression", line, column) EXCEPT !.callee = Str(name)]

CallOf(name, line, column) ==
  [AstNode("CallExpression", line, column) EXCEPT !.callee = Str(name)]

MethodCall(object, method, line, column) ==
  [AstNode("CallExpression", line, column) EXCEPT !.calleeObject = Str(object),
                                                  !.calleeProperty = Str(method)]

Member(object, property, line, column) ==
  [AstNode("MemberExpression", line, column) EXCEPT !.object = Str(object),
                                                    !.property = Str(property)]

Program(nodes) == [parseError |-> FALSE, nodes |-> nodes]

AstPool ==
  { Program(<< NewOf("XMLHttpRequest", 1, 10), CallOf("fetch", 2, 0) >>),
    Program(<< CallOf("fetch", 1, 0), CallOf("toString", 2, 0),
               NewOf("XMLHttpRequest", 3, 0) >>),
    Program(<< [AstNode("ArrowFunctionExpression", 1, 8) EXCEPT !.async = TRUE],
               MethodCall("window", "fetch", 1, 20), Member("window", "fetch", 1, 20),
               MethodCall("Object", "keys", 2, 0), CallOf("setTimeout", 3, 0),
               AstNode("ObjectPattern", 4, 6) >>),
    [parseError |-> TRUE, nodes |-> <<>>] }

Tiers == {"widely-available", "newly-available", "limited", "null"}

\* the lists calculateCompatibilityScore is applied to: of a usage it reads
\* the tier only
UsageLists ==
  UNION { [1..n -> { [baseline |-> t] : t \in Tiers }] : n \in 0..MaxUsages }

Extractors == {"CSSAnalyzer", "SimpleJavaScriptAnalyzer", "JavaScriptAnalyzer"}

\* what each extractor is handed
ExtractorInputs(extractor) ==
  CASE extractor = "CSSAnalyzer" ->
         { [filePath |-> f.path, content |-> f.css] :
             f \in {appCss, legacyScss, brokenCss, printCss, exampleCss, longCss} }
    [] extractor = "SimpleJavaScriptAnalyzer" ->
         { [filePath |-> f.path, content |-> f.text] : f \in {apiJs, typesTs, twiceJs} }
    [] extractor = "JavaScriptAnalyzer" ->
         { [filePath |-> Str("src/api.js"), content |-> a] : a \in AstPool }

(***************************************************************************)
(* State.                                                                  *)
(***************************************************************************)
VARIABLES
  features,     \* the imported dataset
  config,       \* BaselineChecker.config
  featureMap,   \* BaselineChecker.featureMap
  lastCheck,    \* the last point query: <<>> or <<[featureId, result]>>
  lastAnalysis, \* the last call of an extractor: <<>> or
                \* <<[extractor, filePath, content, result]>>
  earlierAnalysis, \* the call of an extractor before the last one, as lastAnalysis
  lastScore,    \* the last call of calculateCompatibilityScore: <<>> or
                \* <<[features, score]>>
  lastSuggestions, \* the last call of getModernizationSuggestions: <<>> or
                \* <<[legacyFeatures, result]>>
  lastRisk,     \* the last call of calculateRiskScore: <<>> or
                \* <<[result, riskScore]>>
  pc,           \* analyzeProject: "idle", "loop" or "done"
  files,        \* analyzeProject: files
  nextFile,     \* analyzeProject: the index of the file the loop is at
  fileAnalyses, \* analyzeProject: fileAnalyses
  report,       \* what analyzeProject returned: <<>> or <<AnalysisResult>>
  run           \* how the ci command or the GitHub Action ended: <<>> or
                \* <<[entry, options, completed, failed, message, count]>>

vars ==
  <<features, config, featureMap, lastCheck, lastAnalysis, earlierAnalysis, lastScore,
    lastSuggestions, lastRisk, pc, files, nextFile, fileAnalyses, report, run>>

checkerVars == <<features, config, featureMap>>
resultVars ==
  <<lastCheck, lastAnalysis, earlierAnalysis, lastScore, lastSuggestions, lastRisk>>
projectVars == <<pc, files, nextFile, fileAnalyses, report, run>>

\* nothing has been called yet
Idle ==
  /\ lastCheck = <<>>
  /\ lastAnalysis = <<>>
  /\ earlierAnalysis = <<>>
  /\ lastScore = <<>>
  /\ lastSuggestions = <<>>
  /\ lastRisk = <<>>
  /\ pc = "idle"
  /\ files = <<>>
  /\ nextFile = 1
  /\ fileAnalyses = <<>>
  /\ report = <<>>
  /\ run = <<>>

\* new BaselineChecker(config) over the imported dataset
Init ==
  /\ features \in Datasets
  /\ config \in Configs
  /\ featureMap = initializeFeatureMap(features)
  /\ Idle

\* no result of a call is waiting to be taken
NoResult == resultVars = <<<<>>, <<>>, <<>>, <<>>, <<>>, <<>>>>

\* a lookup that remembers under the token the record it found for it
CheckFeature_caching(featureId) ==
  /\ pc = "idle"
  /\ NoResult
  /\ lastCheck' = <<[featureId |-> featureId,
                     result |-> checkFeature(featureMap, config, featureId)]>>
  /\ featureMap' = IF findFeature(featureMap, featureId) = Null THEN featureMap
                   ELSE MapSet(featureMap, featureId, findFeature(featureMap, featureId)[1])
  /\ UNCHANGED <<features, config, lastAnalysis, earlierAnalysis, lastScore,
                 lastSuggestions, lastRisk, projectVars>>

\* baselineChecker.checkFeature(featureId)
CheckFeature(featureId) ==
  /\ pc = "idle"
  /\ NoResult
  /\ lastCheck' = <<[featureId |-> featureId,
                     result |-> checkFeature(featureMap, config, featureId)]>>
  /\ UNCHANGED <<checkerVars, lastAnalysis, earlierAnalysis, lastScore, lastSuggestions,
                 lastRisk, projectVars>>

\* the caller takes the results of the calls made so far
TakeResult ==
  /\ pc = "idle"
  /\ ~NoResult
  /\ lastCheck' = <<>>
  /\ lastAnalysis' = <<>>
  /\ earlierAnalysis' = <<>>
  /\ lastScore' = <<>>
  /\ lastSuggestions' = <<>>
  /\ lastRisk' = <<>>
  /\ UNCHANGED <<checkerVars, projectVars>>

Next ==
  \/ \E t \in Tokens : CheckFeature(t)
  \/ TakeResult

Spec == Init /\ [][Next]_vars

(***************************************************************************)
(* Analysing a project: new Analyzer(config), then calls of the            *)
(* extractors, of the score and of analyzeProject.                         *)
(***************************************************************************)
InitProject ==
  /\ features \in ProjectDatasets
  /\ config \in Configs
  /\ featureMap = initializeFeatureMap(features)
  /\ Idle

\* an extractor whose usage list outlives the call: each call returns the
\* usages of the call before it followed by its own
extract_accumulating(extractor, m, cfg, content, filePath) ==
  LET own ==
        CASE extractor = "CSSAnalyzer" -> CSSAnalyzer_analyze(m, cfg, content, filePath)
          [] extractor = "SimpleJavaScriptAnalyzer" ->
               SimpleJavaScriptAnalyzer_analyze(m, cfg, content, filePath)
          [] extractor = "JavaScriptAnalyzer" ->
               JavaScriptAnalyzer_analyze(m, cfg, content, filePath)
  IN IF lastAnalysis = <<>> THEN own
     ELSE [own EXCEPT !.features = lastAnalysis[1].result.features \o @]

extract(extractor, m, cfg, content, filePath) ==
  CASE extractor = "CSSAnalyzer" -> CSSAnalyzer_analyze(m, cfg, content, filePath)
    [] extractor = "SimpleJavaScriptAnalyzer" ->
         SimpleJavaScriptAnalyzer_analyze(m, cfg, content, filePath)
    [] extractor = "JavaScriptAnalyzer" -> JavaScriptAnalyzer_analyze(m, cfg, content, filePath)

\* extractor.analyze(content, filePath); the call before it is kept beside
\* it until the results are taken
Analyze(extractor, input) ==
  /\ pc = "idle"
  /\ lastCheck = <<>>
  /\ lastScore = <<>>
  /\ lastSuggestions = <<>>
  /\ lastRisk = <<>>
  /\ earlierAnalysis = <<>>
  /\ earlierAnalysis' = lastAnalysis
  /\ lastAnalysis' = <<[extractor |-> extractor,
                        filePath |-> input.filePath,
                        content |-> input.content,
                        result |-> extract(extractor, featureMap, config,
                                           input.content, input.filePath)]>>
  /\ UNCHANGED <<checkerVars, lastCheck, lastScore, lastSuggestions, lastRisk, projectVars>>

\* calculateCompatibilityScore(usages), for some list of usages
Score ==
  /\ pc = "idle"
  /\ NoResult
  /\ \E usages \in UsageLists :
       lastScore' = <<[features |-> usages, score |-> calculateCompatibilityScore(usages)]>>
  /\ UNCHANGED <<checkerVars, lastCheck, lastAnalysis, earlierAnalysis, lastSuggestions,
                 lastRisk, projectVars>>

\* analyzeProject up to the loop: glob has returned some list of files
FindFiles ==
  /\ pc = "idle"
  /\ NoResult
  /\ \E globbed \in Globbed : files' = findFiles(globbed)
  /\ fileAnalyses' = <<>>
  /\ nextFile' = 1
  /\ pc' = "loop"
  /\ UNCHANGED <<checkerVars, resultVars, report, run>>

\* one pass of the loop of analyzeProject
AnalyzeFile ==
  /\ pc = "loop"
  /\ nextFile <= Len(files)
  /\ fileAnalyses' = analyzeNext(featureMap, config, fileAnalyses, files[nextFile])
  /\ nextFile' = nextFile + 1
  /\ UNCHANGED <<checkerVars, resultVars, pc, files, report, run>>

\* the loop is over: analyzeProject returns generateReport(fileAnalyses)
GenerateReport ==
  /\ pc = "loop"
  /\ nextFile > Len(files)
  /\ report' = <<generateReport(fileAnalyses)>>
  /\ pc' = "done"
  /\ UNCHANGED <<checkerVars, resultVars, files, nextFile, fileAnalyses, run>>

\* baselineChecker.getModernizationSuggestions(legacyFeatures), for some list
GetModernizationSuggestions ==
  /\ pc = "idle"
  /\ NoResult
  /\ \E legacyFeatures \in LegacyLists :
       lastSuggestions' = <<[legacyFeatures |-> legacyFeatures,
                             result |-> getModernizationSuggestions(legacyFeatures)]>>
  /\ UNCHANGED <<checkerVars, lastCheck, lastAnalysis, earlierAnalysis, lastScore,
                 lastRisk, projectVars>>

NextProject ==
  \/ \E t \in Tokens : CheckFeature(t)
  \/ GetModernizationSuggestions
  \/ TakeResult
  \/ \E x \in Extractors : \E input \in ExtractorInputs(x) : Analyze(x, input)
  \/ Score
  \/ FindFiles
  \/ AnalyzeFile
  \/ GenerateReport

SpecProject == InitProject /\ [][NextProject]_vars

(***************************************************************************)
(* The two entry points that turn a result into pass or fail: the ci       *)
(* command of the command line and the GitHub Action.  Both construct the  *)
(* Analyzer, await analyzeProject, write the report and then decide.       *)
(***************************************************************************)
\* --fail-on-error is a flag with default true and has no negation, so the
\* ci command always has it set; the Action reads both as boolean inputs
EntryOptions(entry) ==
  IF entry = "ci"
    THEN { [failOnError |-> TRUE, failOnWarning |-> w] : w \in BOOLEAN }
    ELSE { [failOnError |-> e, failOnWarning |-> w] : e \in BOOLEAN, w \in BOOLEAN }

\* the ci command after runAnalysis has returned result: process.exit(1) with
\* the error count, process.exit(1) with the warning count, or process.exit(0)
ciOutcome(options, result) ==
  IF options.failOnError /\ result.summary.errors > 0
    THEN [failed |-> TRUE, message |-> "Found compatibility errors",
          count |-> result.summary.errors]
  ELSE IF options.failOnWarning /\ result.summary.warnings > 0
    THEN [failed |-> TRUE, message |-> "Found compatibility warnings",
          count |-> result.summary.warnings]
  ELSE [failed |-> FALSE, message |-> "Baseline compatibility check passed", count |-> 0]

\* a decision that looks at the warnings before the errors
actionOutcome_warningsFirst(options, result) ==
  IF options.failOnWarning /\ result.summary.warnings > 0
    THEN [failed |-> TRUE, message |-> "Found compatibility warnings",
          count |-> result.summary.warnings]
  ELSE IF options.failOnError /\ result.summary.errors > 0
    THEN [failed |-> TRUE, message |-> "Found compatibility errors",
          count |-> result.summary.errors]
  ELSE [failed |-> FALSE, message |-> "BaselineFlow analysis completed successfully",
        count |-> 0]

\* the Action after the report, outputs and summary are written: setFailed
\* with the error count, setFailed with the warning count, or neither
actionOutcome(options, result) ==
  IF options.failOnError /\ result.summary.errors > 0
    THEN [failed |-> TRUE, message |-> "Found compatibility errors",
          count |-> result.summary.errors]
  ELSE IF options.failOnWarning /\ result.summary.warnings > 0
    THEN [failed |-> TRUE, message |-> "Found compatibility warnings",
          count |-> result.summary.warnings]
  ELSE [failed |-> FALSE, message |-> "BaselineFlow analysis completed successfully",
        count |-> 0]

\* what the catch clause of the entry point reports
caught(entry) ==
  [failed |-> TRUE,
   message |-> IF entry = "ci" THEN "CI Error" ELSE "BaselineFlow analysis failed",
   count |-> 0]

\* the entry point throws before analyzeProject is called: the path given to
\* the ci command does not exist, or an input of the Action is not a boolean
StartFails(entry, options) ==
  /\ pc = "idle"
  /\ NoResult
  /\ run = <<>>
  /\ run' = <<[entry |-> entry, options |-> options, completed |-> FALSE] @@ caught(entry)>>
  /\ pc' = "exited"
  /\ UNCHANGED <<checkerVars, resultVars, files, nextFile, fileAnalyses, report>>

\* the ci command from the return of analyzeProject on: runAnalysis writes the
\* report, which the file system may refuse, and the exit code is decided
CiCommand(options, reportWritten) ==
  /\ pc = "done"
  /\ run = <<>>
  /\ run' = <<[entry |-> "ci", options |-> options, completed |-> reportWritten]
              @@ (IF reportWritten THEN ciOutcome(options, report[1]) ELSE caught("ci"))>>
  /\ pc' = "exited"
  /\ UNCHANGED <<checkerVars, resultVars, files, nextFile, fileAnalyses, report>>

\* the Action from the return of analyzeProject on: the report file, the
\* outputs and the summary are written, which may fail, and setFailed is
\* called or not
ActionRun(options, reportWritten) ==
  /\ pc = "done"
  /\ run = <<>>
  /\ run' = <<[entry |-> "action", options |-> options, completed |-> reportWritten]
              @@ (IF reportWritten THEN actionOutcome(options, report[1])
                  ELSE caught("action"))>>
  /\ pc' = "exited"
  /\ UNCHANGED <<checkerVars, resultVars, files, nextFile, fileAnalyses, report>>

NextCI ==
  \/ \E entry \in {"ci", "action"} : \E options \in EntryOptions(entry) :
       StartFails(entry, options)
  \/ FindFiles
  \/ AnalyzeFile
  \/ GenerateReport
  \/ \E options \in EntryOptions("ci") : \E reportWritten \in BOOLEAN :
       CiCommand(options, reportWritten)
  \/ \E options \in EntryOptions("action") : \E reportWritten \in BOOLEAN :
       ActionRun(options, reportWritten)

SpecCI == InitProject /\ [][NextCI]_vars

(***************************************************************************)
(* The JSON report: new JSONReporter(), then calculateRiskScore on the     *)
(* result of an analysis.                                                  *)
(***************************************************************************)
InitReport ==
  /\ features = <<>>
  /\ config = loadConfig(Undefined, Undefined, <<>>)
  /\ featureMap = initializeFeatureMap(features)
  /\ Idle

\* jsonReporter.calculateRiskScore(result), for some result
RiskScore ==
  /\ pc = "idle"
  /\ NoResult
  /\ \E result \in Results :
       lastRisk' = <<[result |-> result, riskScore |-> calculateRiskScore(result)]>>
  /\ UNCHANGED <<checkerVars, lastCheck, lastAnalysis, earlierAnalysis, lastScore,
                 lastSuggestions, projectVars>>

NextReport ==
  \/ RiskScore
  \/ TakeResult

SpecReport == InitReport /\ [][NextReport]_vars

(***************************************************************************)
(* The four lookup stages of findFeature, one predicate each.              *)
(***************************************************************************)
exactStage(m, query) == MapHas(m, query)

lowercaseStage(m, query) == MapHas(m, toLowerCase(query))

variationStage(m, query) == firstVariation(m, generateCssVariations(query)) # 0

substringStage(m, query) == fuzzySearch(m, query) # Null

matchesNoStage(m, query) ==
  /\ ~exactStage(m, query)
  /\ ~lowercaseStage(m, query)
  /\ ~variationStage(m, query)
  /\ ~substringStage(m, query)

\* the point query whose descriptor is being returned
Checked == lastCheck # <<>>
Query == lastCheck[1].featureId
Result == lastCheck[1].result

(***************************************************************************)
(* C1: a token that matches at none of the four lookup stages gets the     *)
(* descriptor baseline = null, browsers = {}, meetsCriteria = false and a  *)
(* suggestion that contains "not found".                                   *)
(***************************************************************************)
C1_UnmatchedIsNull ==
  (Checked /\ matchesNoStage(featureMap, Query)) =>
     /\ Result.baseline = "null"
     /\ Result.browsers = NoSupport
     /\ Result.meetsCriteria = FALSE
     /\ Result.suggestion # <<>>
     /\ includes(Result.suggestion[1], Str("not found"))

C1_Witness ==
  /\ Checked
  /\ featureMap # <<>>
  /\ Query = Str("non-existent-feature")
  /\ matchesNoStage(featureMap, Query)
  /\ config.target = "limited"

(***************************************************************************)
(* C2: for a token that resolves to a record with tier t, under each of    *)
(* the three targets g, meetsCriteria is: t = widely-available when        *)
(* g = widely-available; t in {widely-available, newly-available} when     *)
(* g = newly-available; true when g = limited.                             *)
(***************************************************************************)
C2_CriteriaTable ==
  (Checked /\ Result.baseline # "null") =>
     /\ config.target = "widely-available" =>
          (Result.meetsCriteria <=> Result.baseline = "widely-available")
     /\ config.target = "newly-available" =>
          (Result.meetsCriteria <=>
             Result.baseline \in {"widely-available", "newly-available"})
     /\ config.target = "limited" => Result.meetsCriteria

C2_Witness ==
  /\ Checked
  /\ Result.baseline = "newly-available"
  /\ config.target = "newly-available"
  /\ Result.meetsCriteria

(***************************************************************************)
(* C3: acceptance is monotonic in the target (accepted under               *)
(* widely-available implies accepted under newly-available implies         *)
(* accepted under limited), and a token that resolves to widely-available  *)
(* has meetsCriteria = true under every target the checker can be          *)
(* constructed with.                                                       *)
(***************************************************************************)
meetsUnder(target) ==
  checkFeature(featureMap, [config EXCEPT !.target = target], Query).meetsCriteria

C3_MonotonicAcceptance ==
  (Checked /\ Result.baseline # "null") =>
     /\ meetsUnder("widely-available") => meetsUnder("newly-available")
     /\ meetsUnder("newly-available") => meetsUnder("limited")
     /\ Result.baseline = "widely-available" => Result.meetsCriteria

(***************************************************************************)
(* What the claims about the extractors and the report speak of.           *)
(***************************************************************************)
\* the severity rule as the specification words it
SeverityRule(tier, meetsCriteria) ==
  IF meetsCriteria THEN "info"
  ELSE IF tier = "limited" THEN "error"
  ELSE "warning"

\* the extractor call whose usage list is being returned
Analysed == lastAnalysis # <<>>
Call == lastAnalysis[1]
Usages == Call.result.features

\* the tokens the visitors hand to the matcher from node i on, up to a throw
RECURSIVE visitedTokens(_, _)
visitedTokens(nodes, i) ==
  IF i > Len(nodes) THEN <<>>
  ELSE LET v == visitNode(nodes[i])
       IN [k \in 1..Len(v.tokens) |-> v.tokens[k].featureId]
          \o (IF v.throws THEN <<>> ELSE visitedTokens(nodes, i + 1))

\* the candidate tokens of the call, in the order the extractor checks them
candidateTokens ==
  CASE Call.extractor = "CSSAnalyzer" ->
         IF Call.content.parseError THEN <<>>
         ELSE [i \in 1..Len(CSSAnalyzer_candidates(Call.content)) |->
                 CSSAnalyzer_candidates(Call.content)[i].candidate.featureId]
    [] Call.extractor = "SimpleJavaScriptAnalyzer" ->
         Concat([i \in 1..Len(splitLines(Call.content)) |->
                   analyzeLineForFeatures(splitLines(Call.content)[i])])
    [] Call.extractor = "JavaScriptAnalyzer" ->
         IF Call.content.parseError THEN <<>> ELSE visitedTokens(Call.content.nodes, 1)

\* what the matcher returns for a token
Matched(token) == checkFeature(featureMap, config, token)

(***************************************************************************)
(* C4: the severity of a usage is a function of (tier, meetsCriteria)      *)
(* only: info when meetsCriteria is true, otherwise error when the tier is *)
(* limited and warning for any other tier; CSSAnalyzer,                    *)
(* SimpleJavaScriptAnalyzer and JavaScriptAnalyzer all compute this same   *)
(* function, and the usages an extractor returns carry its value.          *)
(***************************************************************************)
C4_SameSeverityRule ==
  /\ \A tier \in Tiers, meetsCriteria \in BOOLEAN :
       /\ CSSAnalyzer_determineSeverity(tier, meetsCriteria)
            = SeverityRule(tier, meetsCriteria)
       /\ SimpleJavaScriptAnalyzer_determineSeverity(tier, meetsCriteria)
            = SeverityRule(tier, meetsCriteria)
       /\ JavaScriptAnalyzer_determineSeverity(tier, meetsCriteria)
            = SeverityRule(tier, meetsCriteria)
  /\ Analysed =>
       \A i \in 1..Len(Usages) :
         Usages[i].severity
           = SeverityRule(Usages[i].baseline, Matched(Usages[i].featureId).meetsCriteria)

C4_Witness ==
  /\ Analysed
  /\ Call.extractor = "CSSAnalyzer"
  /\ \E i, j, k \in 1..Len(Usages) :
       /\ Usages[i].severity = "error"
       /\ Usages[j].severity = "warning"
       /\ Usages[k].severity = "info"

(***************************************************************************)
(* C5: in the usage list an extractor returns, every usage has a non-null  *)
(* tier and the severity the rule gives for its tier and for the           *)
(* meetsCriteria the matcher returned for its token; the usages are the    *)
(* candidate tokens with a non-null tier, in order, so a candidate for     *)
(* which the matcher returns a null tier never appears.                    *)
(***************************************************************************)
C5_OnlyMatchedUsages ==
  Analysed =>
    LET kept == SelectSeq(candidateTokens, LAMBDA t : Matched(t).baseline # "null")
    IN /\ Len(Usages) = Len(kept)
       /\ \A i \in 1..Len(Usages) :
            /\ Usages[i].featureId = kept[i]
            /\ Usages[i].baseline # "null"
            /\ Usages[i].baseline = Matched(kept[i]).baseline
            /\ Usages[i].severity
                 = SeverityRule(Usages[i].baseline, Matched(kept[i]).meetsCriteria)

C5_Witness ==
  /\ Analysed
  /\ Call.extractor = "SimpleJavaScriptAnalyzer"
  /\ Len(Usages) = 1
  /\ Len(candidateTokens) = 2
  /\ Usages[1].severity = "error"

(***************************************************************************)
(* C6: for every list of usages, compatibilityScore is an integer in       *)
(* 0..100 equal to the mean of the per-usage points (widely-available 100, *)
(* newly-available 75, limited 25, null or unknown tier 50) rounded to the *)
(* nearest integer, and 100 for the empty list; [widely, widely] gives 100 *)
(* and [limited] gives 25.                                                 *)
(***************************************************************************)
\* how many usages of the list have the tier
CountTier(us, tier) == Cardinality({ i \in 1..Len(us) : us[i].baseline = tier })

\* the sum of the per-usage points as the specification gives them
PointsTotal(us) ==
  100 * CountTier(us, "widely-available")
  + 75 * CountTier(us, "newly-available")
  + 25 * CountTier(us, "limited")
  + 50 * (Len(us) - CountTier(us, "widely-available")
                  - CountTier(us, "newly-available") - CountTier(us, "limited"))

\* score is an integer in 0..100 within one half of the mean of the points
IsRoundedMean(us, score) ==
  /\ score \in 0..100
  /\ Len(us) = 0 => score = 100
  /\ Len(us) > 0 =>
       /\ 2 * Len(us) * score - 2 * PointsTotal(us) <= Len(us)
       /\ 2 * PointsTotal(us) - 2 * Len(us) * score <= Len(us)

Merged == Concat([i \in 1..Len(fileAnalyses) |-> fileAnalyses[i].features])

\* the usages of the merged list with the severity, in merged order
OfSeverity(severity) == SelectSeq(Merged, LAMBDA f : f.severity = severity)

C7_PartitionBySeverity ==
  report # <<>> =>
    LET r == report[1]
    IN /\ \A i \in 1..Len(Merged) : Merged[i].severity \in {"error", "warning", "info"}
       /\ r.violations = OfSeverity("error")
       /\ r.warnings = OfSeverity("warning")
       /\ r.suggestions = OfSeverity("info")
       /\ r.summary.errors = Len(r.violations)
       /\ r.summary.warnings = Len(r.warnings)
       /\ r.summary.suggestions = Len(r.suggestions)
       /\ r.totalFeatures = Len(Merged)
       /\ r.summary.errors + r.summary.warnings + r.summary.suggestions = r.totalFeatures

C7_Witness ==
  /\ report # <<>>
  /\ Len(fileAnalyses) = 2
  /\ report[1].summary.errors = 1
  /\ report[1].summary.warnings = 2
  /\ report[1].summary.suggestions = 2

VendorPrefixes == {Str("-webkit-"), Str("-moz-"), Str("-ms-"), Str("-o-")}

\* the bare property names the dataset registers from css.properties.* keys
bareProperties ==
  { DropFirst(features[i].compat_features[j], Len(Str("css.properties."))) :
      <<i, j>> \in { ij \in (1..Len(features)) \X (1..3) :
                       /\ ij[2] <= Len(features[ij[1]].compat_features)
                       /\ startsWith(features[ij[1]].compat_features[ij[2]], Str("css.properties.")) } }

\* the token is prefix + p for a registered bare property name p
IsPrefixedProperty(pre) ==
  /\ Checked
  /\ startsWith(Query, pre)
  /\ DropFirst(Query, Len(pre)) \in bareProperties

\* C9 as claimed: for every registered bare CSS property name p and each
\* vendor prefix, checkFeature(prefix + p) resolves to the same feature
\* record as checkFeature(p), with the same non-null tier and browsers.
C9_PrefixedResolvesLikeBare ==
  \A pre \in VendorPrefixes :
    IsPrefixedProperty(pre) =>
      LET p == DropFirst(Query, Len(pre))
          bare == checkFeature(featureMap, config, p)
      IN /\ findFeature(featureMap, Query) = findFeature(featureMap, p)
         /\ Result.baseline = bare.baseline
         /\ Result.browsers = bare.browsers
         /\ Result.baseline # "null"

\* C9 amended: for every registered bare CSS property name p and each vendor
\* prefix, when prefix + p is not itself matched at the exact or lowercase
\* stage, checkFeature(prefix + p) resolves to the same feature record as
\* checkFeature(p), with the same tier and browsers, which are non-null
\* exactly when that record has a status.
C9_PrefixedResolvesLikeBareUnlessKey ==
  \A pre \in VendorPrefixes :
    (/\ IsPrefixedProperty(pre)
     /\ ~exactStage(featureMap, Query)
     /\ ~lowercaseStage(featureMap, Query)) =>
      LET p == DropFirst(Query, Len(pre))
          bare == checkFeature(featureMap, config, p)
      IN /\ findFeature(featureMap, Query) = findFeature(featureMap, p)
         /\ findFeature(featureMap, p) = <<MapGet(featureMap, p)>>
         /\ Result.baseline = bare.baseline
         /\ Result.browsers = bare.browsers
         /\ Result.meetsCriteria = bare.meetsCriteria
         /\ (Result.baseline # "null" <=> MapGet(featureMap, p).status.present)

C9_Witness ==
  /\ IsPrefixedProperty(Str("-webkit-"))
  /\ Query = Str("-webkit-transform")
  /\ ~exactStage(featureMap, Query)
  /\ Result.baseline = "widely-available"
  /\ Len(features) > 1

(***************************************************************************)
(* C10: camelCase tokens.                                                  *)
(***************************************************************************)
\* letters only, starting with a lower-case letter, with an upper-case letter
IsCamelCase(t) ==
  /\ t # <<>>
  /\ t[1] \in LowerSet
  /\ \A i \in 1..Len(t) : t[i] \in LowerSet \cup UpperSet
  /\ \E i \in 1..Len(t) : t[i] \in UpperSet

\* a hyphen inserted before each upper-case letter, then lower-cased
KebabForm(t) ==
  Concat([i \in 1..Len(t) |->
            IF t[i] \in UpperSet THEN <<"-", LowerChar(t[i])>> ELSE <<t[i]>>])

\* the point query is a camelCase token whose kebab-case form is a registry
\* key and that is matched neither at the exact nor at the lowercase stage
IsCamelCaseQuery ==
  /\ Checked
  /\ IsCamelCase(Query)
  /\ MapHas(featureMap, KebabForm(Query))
  /\ ~exactStage(featureMap, Query)
  /\ ~lowercaseStage(featureMap, Query)

\* C10 as claimed: such a token resolves to a non-null tier, namely that of
\* the record stored under the kebab-case key.
C10_CamelCaseResolves ==
  IsCamelCaseQuery =>
    /\ Result.baseline # "null"
    /\ Result.baseline = getBaselineStatus(MapGet(featureMap, KebabForm(Query)).status)

\* C10 amended: such a token resolves to the record stored under the
\* kebab-case key; its tier is that record's tier when the record has a
\* status, and null when it has none.
C10_CamelCaseResolvesToRecord ==
  IsCamelCaseQuery =>
    LET r == MapGet(featureMap, KebabForm(Query))
    IN /\ findFeature(featureMap, Query) = <<r>>
       /\ r.status.present =>
            /\ Result.baseline = getBaselineStatus(r.status)
            /\ Result.baseline # "null"
            /\ Result.browsers = getBrowserSupport(r.status)
       /\ ~r.status.present => Result.baseline = "null"

C10_Witness ==
  /\ IsCamelCaseQuery
  /\ Query = Str("backgroundColor")
  /\ Result.baseline = "newly-available"

(***************************************************************************)
(* C11: lookup is first-match-wins over the stage order exact key,         *)
(* lowercase key, CSS variations (prefix-stripped, kebab-case, css-<name>, *)
(* css.properties.<name>, in that order), substring fallback: the record   *)
(* returned for a token is the one found by the earliest stage that        *)
(* matches, even when a later stage would find a different record, and a   *)
(* later stage is consulted only when all earlier stages miss.             *)
(***************************************************************************)
\* the token without its vendor prefix
Unprefixed(t) ==
  IF \E pre \in VendorPrefixes : startsWith(t, pre)
    THEN DropFirst(t, Len(CHOOSE pre \in VendorPrefixes : startsWith(t, pre)))
    ELSE t

\* the CSS variations of a token in the order the specification lists them
ListedVariations(t) ==
  << Unprefixed(t), KebabForm(t), Str("css-") \o Unprefixed(t),
     Str("css.properties.") \o Unprefixed(t) >>

\* the record each stage finds on its own, <<>> when the stage misses
exactRecord(m, t) == IF MapHas(m, t) THEN <<MapGet(m, t)>> ELSE <<>>

lowercaseRecord(m, t) ==
  IF MapHas(m, toLowerCase(t)) THEN <<MapGet(m, toLowerCase(t))>> ELSE <<>>

variationRecord(m, t) ==
  LET hits == { i \in 1..4 : MapHas(m, ListedVariations(t)[i]) }
  IN IF hits = {} THEN <<>>
     ELSE <<MapGet(m, ListedVariations(t)[CHOOSE i \in hits : \A j \in hits : i <= j])>>

substringRecord(m, t) == fuzzySearch(m, t)

\* the record of the earliest stage that matches
earliestRecord(m, t) ==
  IF exactRecord(m, t) # <<>> THEN exactRecord(m, t)
  ELSE IF lowercaseRecord(m, t) # <<>> THEN lowercaseRecord(m, t)
  ELSE IF variationRecord(m, t) # <<>> THEN variationRecord(m, t)
  ELSE substringRecord(m, t)

C11_FirstMatchWins ==
  Checked =>
    LET r == earliestRecord(featureMap, Query)
    IN /\ findFeature(featureMap, Query) = r
       /\ (r # <<>> /\ r[1].status.present) =>
            /\ Result.baseline = getBaselineStatus(r[1].status)
            /\ Result.browsers = getBrowserSupport(r[1].status)

\* the exact stage wins although the substring stage finds another record
C11_Witness ==
  /\ Checked
  /\ exactRecord(featureMap, Query) # <<>>
  /\ substringRecord(featureMap, Query) # <<>>
  /\ substringRecord(featureMap, Query) # exactRecord(featureMap, Query)
  /\ Result.baseline = "widely-available"
  /\ getBaselineStatus(substringRecord(featureMap, Query)[1].status) = "limited"

(***************************************************************************)
(* C12: failure isolation in analyzeProject.  For any sequence of          *)
(* discovered files in which some fail (unreadable file, malformed CSS, an *)
(* error thrown while analysing the file), every other file is still       *)
(* analysed, the failing file contributes zero usages, and analyzeProject  *)
(* returns a result that contains exactly the usages of the non-failing    *)
(* files instead of raising.                                               *)
(***************************************************************************)
\* the file cannot be read, or it is a stylesheet postcss cannot parse
Fails(file) ==
  \/ ~file.readable
  \/ /\ toLowerCase(extname(file.path)) \in styleExtensions
     /\ file.css.parseError

\* the usages of a file when it is analysed on its own
OwnUsages(file) ==
  IF toLowerCase(extname(file.path)) \in styleExtensions
    THEN CSSAnalyzer_analyze(featureMap, config, file.css, file.path).features
    ELSE SimpleJavaScriptAnalyzer_analyze(featureMap, config, file.text, file.path).features

\* what a file of the pool contributes when it is analysed on its own by an
\* Analyzer constructed on dataset d with configuration c: nothing if it
\* fails, its usages otherwise
SoundUsages ==
  [d \in ProjectDatasets |->
    [c \in Configs |->
      [f \in FilePool |->
        IF Fails(f) THEN <<>>
        ELSE IF toLowerCase(extname(f.path)) \in styleExtensions
          THEN CSSAnalyzer_analyze(initializeFeatureMap(d), c, f.css, f.path).features
          ELSE SimpleJavaScriptAnalyzer_analyze(initializeFeatureMap(d), c, f.text,
                                                f.path).features]]]

\* the usages of the non-failing files among the first n discovered files
UsagesOfSound(n) ==
  Concat([i \in 1..n |-> SoundUsages[features][config][files[i]]])

C12_FailureIsolation ==
  /\ pc = "loop" => Merged = UsagesOfSound(nextFile - 1)
  /\ pc = "done" =>
       LET sound == UsagesOfSound(Len(files)) IN
       /\ nextFile = Len(files) + 1
       /\ report # <<>>
       /\ Merged = sound
       /\ report[1].totalFeatures = Len(sound)
       /\ report[1].violations = SelectSeq(sound, LAMBDA f : f.severity = "error")
       /\ report[1].warnings = SelectSeq(sound, LAMBDA f : f.severity = "warning")
       /\ report[1].suggestions = SelectSeq(sound, LAMBDA f : f.severity = "info")
       /\ \A i \in 1..Len(fileAnalyses) :
            \E k \in 1..Len(files) : /\ ~Fails(files[k])
                                     /\ fileAnalyses[i].file = files[k].path

\* an unreadable file came first and a stylesheet with usages after it
C12_Witness ==
  /\ pc = "done"
  /\ Len(files) = 2
  /\ ~files[1].readable
  /\ ~Fails(files[2])
  /\ report[1].totalFeatures > 0
  /\ report[1].totalFeatures = Len(OwnUsages(files[2]))

(***************************************************************************)
(* C13: aggregation is independent of file-processing order.  For any two  *)
(* orderings of the same set of per-file analyses, generateReport yields   *)
(* the same totalFiles, totalFeatures, summary counts, compatibilityScore  *)
(* and modernizationOpportunities, and violations, warnings and            *)
(* suggestions that are equal as multisets.                                *)
(***************************************************************************)
\* how often x occurs in the list
CountIn(list, x) == Cardinality({ i \in 1..Len(list) : list[i] = x })

SameMultiset(a, b) ==
  /\ Len(a) = Len(b)
  /\ \A i \in 1..Len(a) : CountIn(a, a[i]) = CountIn(b, a[i])

\* the per-file analyses in the order the permutation p gives
Reordered(analyses, p) == [i \in 1..Len(analyses) |-> analyses[p[i]]]

\* the two reports agree up to the order of their usage lists
SameAggregate(r1, r2) ==
  /\ r1.totalFiles = r2.totalFiles
  /\ r1.totalFeatures = r2.totalFeatures
  /\ r1.summary = r2.summary
  /\ r1.modernizationOpportunities = r2.modernizationOpportunities
  /\ SameMultiset(r1.violations, r2.violations)
  /\ SameMultiset(r1.warnings, r2.warnings)
  /\ SameMultiset(r1.suggestions, r2.suggestions)

C13_OrderIndependent ==
  report # <<>> =>
    \A p \in Permutations(1..Len(fileAnalyses)) :
      SameAggregate(report[1], generateReport(Reordered(fileAnalyses, p)))

\* two files with usages whose other order gives another sequence of warnings
C13_Witness ==
  /\ report # <<>>
  /\ Len(fileAnalyses) = 2
  /\ Len(report[1].modernizationOpportunities) >= 2
  /\ report[1].summary.errors > 0
  /\ generateReport(<<fileAnalyses[2], fileAnalyses[1]>>).warnings # report[1].warnings

(***************************************************************************)
(* C14: extractors are deterministic and carry no state between calls:     *)
(* running the CSS extractor or a script extractor again, after any other  *)
(* calls, on the same text, file path and registry yields the identical    *)
(* ordered FeatureUsage sequence.                                          *)
(***************************************************************************)
\* the extractor call before the last one
EarlierCall == earlierAnalysis[1]

\* the two calls were given the same extractor, text and file path
SameInput(c1, c2) ==
  /\ c1.extractor = c2.extractor
  /\ c1.content = c2.content
  /\ c1.filePath = c2.filePath

\* what a newly constructed extractor over the same dataset and
\* configuration returns for the input of the call
FreshResult(c) ==
  extract(c.extractor, initializeFeatureMap(features), config, c.content, c.filePath)

RecordOf(id) == SelectSeq(features, LAMBDA f : f.id = Str(id))

\* the usages of the call whose token resolves to the record with the id
UsagesOf(id) ==
  SelectSeq(Usages, LAMBDA u : /\ findFeature(featureMap, u.featureId) # Null
                               /\ findFeature(featureMap, u.featureId)[1].id = Str(id))

\* the example stylesheet analysed under the widely-available target with a
\* dataset where flexbox is widely available and container queries have a
\* status
ExampleAnalysed ==
  /\ Analysed
  /\ Call.extractor = "CSSAnalyzer"
  /\ Call.content = exampleCss.css
  /\ config.target = "widely-available"
  /\ RecordOf("flexbox") # <<>>
  /\ RecordOf("flexbox")[1].status.present
  /\ RecordOf("flexbox")[1].status.baseline = "high"
  /\ RecordOf("container-queries") # <<>>
  /\ RecordOf("container-queries")[1].status.present

\* C15 as claimed
C15_ExampleStylesheet ==
  ExampleAnalysed =>
    /\ Len(UsagesOf("flexbox")) = 1
    /\ UsagesOf("flexbox")[1].severity = "info"
    /\ Len(UsagesOf("container-queries")) = 1
    /\ UsagesOf("container-queries")[1].severity
         = SeverityRule(getBaselineStatus(RecordOf("container-queries")[1].status),
                        Matched(Str("container-queries")).meetsCriteria)

\* C15, what the extractor reports for the example: the at-rule @container is
\* checked under two tokens, '@container' and 'container-queries', both of
\* which resolve to the container-queries record, and the declaration
\* display:flex is checked under the token 'display' only
C15_ExampleReportsAtRuleTwice ==
  ExampleAnalysed =>
    /\ Len(UsagesOf("container-queries")) = 2
    /\ UsagesOf("container-queries")[1].featureId = Str("@container")
    /\ UsagesOf("container-queries")[2].featureId = Str("container-queries")
    /\ \A i \in 1..Len(UsagesOf("flexbox")) :
         UsagesOf("flexbox")[i].featureId = Str("display")
    /\ Len(UsagesOf("flexbox")) <= 1

C15_Witness ==
  /\ ExampleAnalysed
  /\ Len(UsagesOf("flexbox")) = 1
  /\ UsagesOf("flexbox")[1].severity = "info"
  /\ Len(Usages) = 3

(***************************************************************************)
(* C16: when file discovery yields no files, analyzeProject returns        *)
(* totalFiles = 0, totalFeatures = 0, compatibilityScore = 100, summary    *)
(* counts all 0, and empty violations, warnings, suggestions and           *)
(* modernizationOpportunities lists.                                       *)
(***************************************************************************)
C16_NoFiles ==
  (pc = "done" /\ files = <<>>) =>
    /\ report # <<>>
    /\ report[1].totalFiles = 0
    /\ report[1].totalFeatures = 0
    /\ report[1].summary.compatibilityScore = 100
    /\ report[1].summary.errors = 0
    /\ report[1].summary.warnings = 0
    /\ report[1].summary.suggestions = 0
    /\ report[1].violations = <<>>
    /\ report[1].warnings = <<>>
    /\ report[1].suggestions = <<>>
    /\ report[1].modernizationOpportunities = <<>>

C16_Witness ==
  /\ pc = "done"
  /\ files = <<>>
  /\ report # <<>>
  /\ features # <<>>

(***************************************************************************)
(* C17: the ci command and the GitHub Action decide pass or fail only from *)
(* the aggregated counts: the run fails if (fail-on-error and              *)
(* summary.errors > 0) or (fail-on-warning and summary.warnings > 0), the  *)
(* error check being evaluated first, and it passes (exit code 0, no       *)
(* setFailed) in every other case in which the analysis completed.         *)
(***************************************************************************)
\* the entry point has ended, and how
Ended == run # <<>>
Run == run[1]

\* the thresholds compared with the counts of the report
ErrorsOver == Run.options.failOnError /\ report[1].summary.errors > 0
WarningsOver == Run.options.failOnWarning /\ report[1].summary.warnings > 0

AsConstructed ==
  /\ featureMap = initializeFeatureMap(features)
  /\ Checked =>
       Result = checkFeature(initializeFeatureMap(features), config, Query)

C18_RegistryReadOnly ==
  /\ []AsConstructed
  /\ [][featureMap' = featureMap /\ config' = config /\ features' = features]_vars

\* two extractor calls were made on a registry with aliases
C18_Witness ==
  /\ earlierAnalysis # <<>>
  /\ Analysed
  /\ Len(Usages) > 0
  /\ MapHas(featureMap, Str("@container"))
  /\ featureMap = initializeFeatureMap(features)

(***************************************************************************)
(* C19: getModernizationSuggestions(list) returns, in input order and one  *)
(* per occurrence, a suggestion for exactly those list entries that are    *)
(* keys of the fixed legacy map ('float', 'clearfix', 'position:           *)
(* absolute'), each with oldFeature equal to the entry; entries not in the *)
(* map are ignored and the empty list yields the empty list.               *)
(***************************************************************************)
LegacyKeys == { Str("float"), Str("clearfix"), Str("position: absolute") }

\* the call of getModernizationSuggestions whose result is being returned
Asked == lastSuggestions # <<>>
LegacyFeatures == lastSuggestions[1].legacyFeatures
Suggestions == lastSuggestions[1].result

\* C19 as claimed
C19_SuggestionsForMapKeys ==
  Asked =>
    LET kept == SelectSeq(LegacyFeatures, LAMBDA f : f \in LegacyKeys)
    IN /\ Len(Suggestions) = Len(kept)
       /\ \A i \in 1..Len(Suggestions) :
            /\ Suggestions[i].oldFeature = kept[i]
            /\ Suggestions[i].newFeature # <<>>
            /\ Suggestions[i].description # <<>>
       /\ LegacyFeatures = <<>> => Suggestions = <<>>

\* C19, what the call returns: an entry that names a property inherited from
\* Object.prototype is answered too, by a suggestion that has oldFeature only
C19_SuggestionsForInheritedKeysToo ==
  Asked =>
    LET kept == SelectSeq(LegacyFeatures,
                          LAMBDA f : f \in LegacyKeys \cup ObjectPrototypeKeys)
    IN /\ Len(Suggestions) = Len(kept)
       /\ \A i \in 1..Len(Suggestions) :
            /\ Suggestions[i].oldFeature = kept[i]
            /\ kept[i] \in LegacyKeys <=> Suggestions[i].newFeature # <<>>
       /\ LegacyFeatures = <<>> => Suggestions = <<>>

C19_Witness ==
  /\ Asked
  /\ LegacyFeatures = <<Str("constructor"), Str("float")>>
  /\ Len(Suggestions) = 2
  /\ Suggestions[1].newFeature = <<>>

(***************************************************************************)
(* C20: the tier of a matched token.                                       *)
(***************************************************************************)
\* the tier the specification gives for a raw status value
TierOfRaw(raw) ==
  IF raw = "high" THEN "widely-available"
  ELSE IF raw = "low" THEN "newly-available"
  ELSE "limited"

\* the record the lookup finds for the point query, <<>> when no stage matches
Found == findFeature(featureMap, Query)

\* C20 as claimed: whenever a token matches a registry record at some lookup
\* stage, checkFeature returns a non-null tier determined only by that
\* record's raw status: 'high' gives widely-available, 'low' gives
\* newly-available, anything else gives limited; a null tier is returned only
\* when no stage matches.
C20_MatchedGivesTier ==
  Checked =>
    /\ ~matchesNoStage(featureMap, Query) =>
         /\ Result.baseline # "null"
         /\ Result.baseline = TierOfRaw(Found[1].status.baseline)
    /\ Result.baseline = "null" => matchesNoStage(featureMap, Query)

\* C20 amended: whenever a token matches a registry record that has a status,
\* checkFeature returns a non-null tier determined only by that record's raw
\* status: 'high' gives widely-available, 'low' gives newly-available,
\* anything else gives limited; a null tier is returned exactly when no stage
\* matches or the matched record has no status.
C20_MatchedWithStatusGivesTier ==
  Checked =>
    /\ (~matchesNoStage(featureMap, Query) /\ Found[1].status.present) =>
         /\ Result.baseline # "null"
         /\ Result.baseline = TierOfRaw(Found[1].status.baseline)
    /\ Result.baseline = "null" <=>
         (matchesNoStage(featureMap, Query) \/ ~Found[1].status.present)

\* a token matched at the substring stage only, whose record has the raw
\* status false
C20_Witness ==
  /\ Checked
  /\ ~exactStage(featureMap, Query)
  /\ ~lowercaseStage(featureMap, Query)
  /\ ~variationStage(featureMap, Query)
  /\ substringStage(featureMap, Query)
  /\ Found[1].status.present
  /\ Found[1].status.baseline = "false"
  /\ Result.baseline = "limited"

ReachesFallback(m, t) ==
  /\ ~exactStage(m, t)
  /\ ~lowercaseStage(m, t)
  /\ ~variationStage(m, t)

\* the entries whose key or display name contains the token, both sides
\* lower-cased
EntriesContaining(m, t) ==
  { i \in 1..Len(m) :
      \/ includes(toLowerCase(m[i].key), toLowerCase(t))
      \/ includes(toLowerCase(m[i].feature.name), toLowerCase(t)) }

\* the entries whose key as stored, or lower-cased display name, contains
\* the lower-cased token
EntriesContainingRaw(m, t) ==
  { i \in 1..Len(m) :
      \/ includes(m[i].key, toLowerCase(t))
      \/ includes(toLowerCase(m[i].feature.name), toLowerCase(t)) }

First(hits) == CHOOSE i \in hits : \A j \in hits : i <= j

\* the claim as stated
C22_SubstringIgnoresCase ==
  (Checked /\ ReachesFallback(featureMap, Query)) =>
    LET hits == EntriesContaining(featureMap, Query)
    IN hits # {} =>
         /\ findFeature(featureMap, Query) # Null
         /\ findFeature(featureMap, Query) = <<featureMap[First(hits)].feature>>

\* what fuzzySearch does: keys are compared as stored, only the token and
\* the display names are lower-cased
C22_SubstringComparesStoredKeys ==
  (Checked /\ ReachesFallback(featureMap, Query)) =>
    LET hits == EntriesContainingRaw(featureMap, Query)
    IN IF hits = {} THEN findFeature(featureMap, Query) = Null
       ELSE findFeature(featureMap, Query) = <<featureMap[First(hits)].feature>>

\* the key api.XMLHttpRequest contains the token when lower-cased, and the
\* lookup finds nothing
C22_Witness ==
  /\ Checked
  /\ Query = Str("api.xmlhttprequest")
  /\ ReachesFallback(featureMap, Query)
  /\ \E i \in EntriesContaining(featureMap, Query) :
       featureMap[i].key = Str("api.XMLHttpRequest")
  /\ findFeature(featureMap, Query) = Null
  /\ Result.baseline = "null"

(***************************************************************************)
(* C23: after construction every feature record is reachable under each    *)
(* of its own index keys: an exact lookup of its canonical id, of its      *)
(* lower-cased display name, of each compatibility key it declares and of  *)
(* each bare property name derived from its css.properties.* keys returns  *)
(* the record itself, whatever other records and aliases the dataset       *)
(* contains.                                                               *)
(***************************************************************************)
\* the bare property names of a record
BareNames(r) ==
  { DropFirst(c, Len(Str("css.properties."))) :
      c \in { k \in { r.compat_features[i] : i \in 1..Len(r.compat_features) } :
                startsWith(k, Str("css.properties.")) } }

\* the index keys of a record: id, lower-cased display name, compat keys,
\* bare property names
OwnKeys(r) ==
  {r.id} \cup (IF r.name # <<>> THEN {toLowerCase(r.name)} ELSE {})
         \cup { r.compat_features[i] : i \in 1..Len(r.compat_features) }
         \cup BareNames(r)

\* the keys a record is stored under, aliases included, in the order
\* written
WrittenKeys(r) ==
  <<r.id>> \o (IF r.name # <<>> THEN <<toLowerCase(r.name)>> ELSE <<>>)
    \o Concat([i \in 1..Len(r.compat_features) |->
                 IF startsWith(r.compat_features[i], Str("css.properties."))
                   THEN <<r.compat_features[i],
                          DropFirst(r.compat_features[i], Len(Str("css.properties.")))>>
                   ELSE <<r.compat_features[i]>>])
    \o mappings(r.id)

\* record j of the dataset writes key k
Writes(j, k) == \E n \in 1..Len(WrittenKeys(features[j])) : WrittenKeys(features[j])[n] = k

\* the claim as stated
C23_OwnKeysReachRecord ==
  \A j \in 1..Len(features) : \A k \in OwnKeys(features[j]) :
     /\ MapHas(featureMap, k)
     /\ MapGet(featureMap, k) = features[j]

\* what the registry holds: under each key the last record that wrote it
C23_LastWriterHoldsKey ==
  \A j \in 1..Len(features) : \A k \in OwnKeys(features[j]) :
     /\ MapHas(featureMap, k)
     /\ LET last == CHOOSE w \in 1..Len(features) :
                      /\ Writes(w, k)
                      /\ \A v \in 1..Len(features) : Writes(v, k) => v <= w
        IN MapGet(featureMap, k) = features[last]

\* the record flex is indexed before flexbox, whose alias flex takes its
\* id: the lookup of flex answers with the tier of flexbox
C23_Witness ==
  /\ Len(features) = 2
  /\ features[1].id = Str("flex")
  /\ features[2].id = Str("flexbox")
  /\ MapGet(featureMap, Str("flex")) = features[2]
  /\ Checked
  /\ Query = Str("flex")
  /\ ~features[1].status.present
  /\ Result.baseline = "widely-available"

(***************************************************************************)
(* C24: the usage list of the line-based script extractor contains no two  *)
(* usages with the same line number and the same feature token, however    *)
(* many patterns match a line and however many times a pattern matches     *)
(* within it.                                                              *)
(***************************************************************************)
\* the usage lists the line-based extractor has returned
LineBasedLists ==
  { c.result.features : c \in { c \in {lastAnalysis[i] : i \in 1..Len(lastAnalysis)} \cup
                                      {earlierAnalysis[i] : i \in 1..Len(earlierAnalysis)} :
                                  c.extractor = "SimpleJavaScriptAnalyzer" } }
  \cup { fileAnalyses[i].features : i \in { i \in 1..Len(fileAnalyses) :
                                              fileAnalyses[i].type # "css" } }

\* the tokens of all pattern tables, one per pattern
TableTokens ==
  [i \in 1..Len(arrayMethods) |-> Str("array-") \o arrayMethods[i]]
  \o [i \in 1..Len(stringMethods) |-> Str("string-") \o stringMethods[i]]
  \o [i \in 1..Len(objectMethods) |-> Str("object-") \o objectMethods[i]]
  \o [i \in 1..Len(syntaxPatterns) |-> syntaxPatterns[i].feature]
  \o [i \in 1..Len(apiPatterns) |-> apiPatterns[i].feature]

\* no two patterns of the tables carry the same token
DistinctTableTokens ==
  \A i, j \in 1..Len(TableTokens) : TableTokens[i] = TableTokens[j] => i = j

C24_OneUsagePerLineAndFeature ==
  /\ DistinctTableTokens
  /\ \A us \in LineBasedLists : \A i, j \in 1..Len(us) :
       (us[i].line = us[j].line /\ us[i].feature = us[j].feature) => i = j

\* fetch( matches twice on line 1 and once on line 2, new XMLHttpRequest on
\* line 1: one usage of fetch per line, one of xhr
C24_Witness ==
  /\ Analysed
  /\ Call.extractor = "SimpleJavaScriptAnalyzer"
  /\ Call.filePath = Str("src/twice.js")
  /\ Len(SelectSeq(Usages, LAMBDA u : u.feature = Str("fetch") /\ u.line = 1)) = 1
  /\ Len(SelectSeq(Usages, LAMBDA u : u.feature = Str("fetch") /\ u.line = 2)) = 1
  /\ Len(SelectSeq(Usages, LAMBDA u : u.feature = Str("xhr") /\ u.line = 1)) = 1

(***************************************************************************)
(* C25: every usage the CSS extractor emits, for every candidate kind,     *)
(* carries a context string of at most 100 characters.                     *)
(***************************************************************************)
\* the claim as stated
C25_ContextAtMostLimit ==
  (Analysed /\ Call.extractor = "CSSAnalyzer") =>
    \A i \in 1..Len(Usages) : Len(Usages[i].context) <= ContextLimit

\* the usage of the at-rule carries the whole condition of the query
C25_Witness ==
  /\ Analysed
  /\ Call.extractor = "CSSAnalyzer"
  /\ Call.filePath = Str("src/long.css")
  /\ \E i \in 1..Len(Usages) :
       /\ Usages[i].feature = Str("container-queries")
       /\ Usages[i].context = Str("@container ") \o Call.content.atRules[1].params
       /\ Len(Usages[i].context) > ContextLimit

(***************************************************************************)
(* C26: modernizationOpportunities contains exactly the hints whose        *)
(* trigger holds, each at most once and in the order float, Fetch,         *)
(* modern-CSS: the float-layout hint iff some usage produced by the CSS    *)
(* extractor has a token containing "float"; the Fetch-API hint iff some   *)
(* usage produced by the script extractor has token xhr; the modern-CSS    *)
(* hint iff some usage has tier newly-available and a token among          *)
(* container-queries, cascade-layers, css-grid, flexbox.                   *)
(***************************************************************************)
\* the usages the CSS extractor, or the script extractor, produced
ProducedBy(css) ==
  Concat([i \in 1..Len(fileAnalyses) |->
            IF (fileAnalyses[i].type = "css") = css THEN fileAnalyses[i].features ELSE <<>>])

\* the claim as stated
C26_OpportunitiesByExtractor ==
  pc = "done" =>
    report[1].modernizationOpportunities
      = (IF \E i \in 1..Len(ProducedBy(TRUE)) :
              includes(ProducedBy(TRUE)[i].feature, Str("float"))
           THEN <<floatSuggestion>> ELSE <<>>)
        \o (IF \E i \in 1..Len(ProducedBy(FALSE)) : ProducedBy(FALSE)[i].feature = Str("xhr")
              THEN <<fetchSuggestion>> ELSE <<>>)
        \o (IF \E i \in 1..Len(Merged) :
                 /\ Merged[i].baseline = "newly-available"
                 /\ Merged[i].feature \in modernCssNames
              THEN <<modernCssSuggestion>> ELSE <<>>)

\* what generateReport does: the float and Fetch triggers look at the usages
\* whose file path ends in a lower-case style or script extension
C26_OpportunitiesByFileSuffix ==
  pc = "done" =>
    report[1].modernizationOpportunities
      = (IF \E i \in 1..Len(Merged) :
              /\ \E x \in styleExtensions : endsWith(Merged[i].file, x)
              /\ includes(Merged[i].feature, Str("float"))
           THEN <<floatSuggestion>> ELSE <<>>)
        \o (IF \E i \in 1..Len(Merged) :
                 /\ \E x \in scriptExtensions : endsWith(Merged[i].file, x)
                 /\ Merged[i].feature = Str("xhr")
              THEN <<fetchSuggestion>> ELSE <<>>)
        \o (IF \E i \in 1..Len(Merged) :
                 /\ Merged[i].baseline = "newly-available"
                 /\ Merged[i].feature \in modernCssNames
              THEN <<modernCssSuggestion>> ELSE <<>>)

\* legacy/PRINT.CSS is analysed by the CSS extractor, its usage of float is
\* in the report, and the report holds no hint
C26_Witness ==
  /\ pc = "done"
  /\ Len(fileAnalyses) = 1
  /\ fileAnalyses[1].file = Str("legacy/PRINT.CSS")
  /\ fileAnalyses[1].type = "css"
  /\ \E i \in 1..Len(Merged) : Merged[i].feature = Str("float")
  /\ report[1].modernizationOpportunities = <<>>

(***************************************************************************)
(* C27: for every AnalysisResult, riskScore = round(100 * (3*errors +      *)
(* warnings) / (3*totalFeatures)), it is 0 when totalFeatures = 0, and it  *)
(* lies in 0..100 (100 when every usage is an error).                      *)
(***************************************************************************)
Scored == lastRisk # <<>>
Counted == lastRisk[1].result
RiskScoreOf == lastRisk[1].riskScore

\* round(100 * (3*errors + warnings) / (3*totalFeatures)), computed exactly
ExactRisk ==
  Round(100 * (3 * Counted.summary.errors + Counted.summary.warnings),
        3 * Counted.totalFeatures)

\* the exact percentage lies halfway between two integers
IsTie ==
  (200 * (3 * Counted.summary.errors + Counted.summary.warnings))
     % (6 * Counted.totalFeatures) = 3 * Counted.totalFeatures

\* the claim as stated
C27_RiskScoreIsRoundedRatio ==
  Scored =>
    /\ Counted.totalFeatures = 0 => RiskScoreOf = 0
    /\ Counted.totalFeatures > 0 => RiskScoreOf = ExactRisk
    /\ RiskScoreOf \in 0..100
    /\ (Counted.totalFeatures > 0 /\ Counted.summary.errors = Counted.totalFeatures) =>
         RiskScoreOf = 100

\* what calculateRiskScore returns: the rounded ratio, except that at a tie
\* the double product may fall below the half and round down
C27_RiskScoreIsRoundedRatioButForTies ==
  Scored =>
    /\ Counted.totalFeatures = 0 => RiskScoreOf = 0
    /\ (Counted.totalFeatures > 0 /\ ~IsTie) => RiskScoreOf = ExactRisk
    /\ (Counted.totalFeatures > 0 /\ IsTie) => RiskScoreOf \in {ExactRisk - 1, ExactRisk}
    /\ RiskScoreOf \in 0..100
    /\ (Counted.totalFeatures > 0 /\ Counted.summary.errors = Counted.totalFeatures) =>
         RiskScoreOf = 100

\* 23 errors among 40 usages: the ratio is 57.5 per cent and the score 57
C27_Witness ==
  /\ Scored
  /\ Counted.totalFeatures = 40
  /\ Counted.summary.errors = 23
  /\ Counted.summary.warnings = 0
  /\ ExactRisk = 58
  /\ RiskScoreOf = 57

(***************************************************************************)
(* C28: totalFiles in the result equals the number of discovered source    *)
(* files that analyzeProject analysed without failure, including files in  *)
(* which no feature usage was detected, so that the report header          *)
(* 'Analyzed N files' and the 'Files Analyzed' metric state the number of  *)
(* files analysed.                                                         *)
(***************************************************************************)
\* the discovered files analyzeFile returned an analysis for
AnalysedWithoutFailure == { k \in 1..Len(files) : ~Fails(files[k]) }

\* those of them in which a usage was detected
AnalysedWithUsages == { k \in AnalysedWithoutFailure : OwnUsages(files[k]) # <<>> }

\* the claim as stated
C28_TotalFilesCountsAnalysedFiles ==
  pc = "done" => report[1].totalFiles = Cardinality(AnalysedWithoutFailure)

\* what analyzeProject counts: the analysed files that hold a usage
C28_TotalFilesCountsFilesWithUsages ==
  /\ pc = "loop" =>
       Len(fileAnalyses) =
         Cardinality({ k \in AnalysedWithUsages : k < nextFile })
  /\ pc = "done" =>
       /\ report[1].totalFiles = Len(fileAnalyses)
       /\ report[1].totalFiles = Cardinality(AnalysedWithUsages)

\* two files were analysed without failure, one of them holds no usage, and
\* the report counts one file
C28_Witness ==
  /\ pc = "done"
  /\ Len(files) = 2
  /\ AnalysedWithoutFailure = {1, 2}
  /\ Cardinality(AnalysedWithUsages) = 1
  /\ report[1].totalFiles = 1

(***************************************************************************)
(* C29: JavaScriptAnalyzer (on the syntax tree) and                        *)
(* SimpleJavaScriptAnalyzer (on the lines) are interchangeable: the set of *)
(* feature tokens each can pass to the Matcher is the same, both emit      *)
(* usages through the same rule (usage only on non-null tier, same         *)
(* severity function, same polyfill and alternative tables), and for a     *)
(* source construct both recognise they emit usages equal in every field   *)
(* except column.                                                          *)
(***************************************************************************)
\* the calls of analyze whose results are held
Calls ==
  {lastAnalysis[i] : i \in 1..Len(lastAnalysis)}
  \cup {earlierAnalysis[i] : i \in 1..Len(earlierAnalysis)}

\* the tokens the visitors pass to checkFeature from node i on, up to a throw
RECURSIVE PassedTokens(_, _)
PassedTokens(nodes, i) ==
  IF i > Len(nodes) THEN {}
  ELSE LET v == visitNode(nodes[i])
       IN {v.tokens[k].featureId : k \in 1..Len(v.tokens)}
          \cup (IF v.throws THEN {} ELSE PassedTokens(nodes, i + 1))

\* the tokens the held calls of JavaScriptAnalyzer.analyze passed
PassedByTree ==
  UNION { PassedTokens(c.content.nodes, 1) :
            c \in { c \in Calls : c.extractor = "JavaScriptAnalyzer" } }

\* the tokens SimpleJavaScriptAnalyzer can pass
LineVocabulary == { TableTokens[i] : i \in 1..Len(TableTokens) }

\* src/api.js as @babel/parser parses the text of apiJs
apiProgram == Program(<< NewOf("XMLHttpRequest", 1, 10), CallOf("fetch", 2, 0) >>)

\* line is the line-based call and tree the tree-based call on src/api.js
SameSource(line, tree) ==
  /\ line.extractor = "SimpleJavaScriptAnalyzer"
  /\ tree.extractor = "JavaScriptAnalyzer"
  /\ line.filePath = tree.filePath
  /\ line.content = apiJs.text
  /\ tree.content = apiProgram

\* the usages the two calls emit for one construct: same token, same line
SameConstruct(line, tree) ==
  { <<line.result.features[i], tree.result.features[j]>> :
      <<i, j>> \in { p \in (1..Len(line.result.features)) \X (1..Len(tree.result.features)) :
                       /\ line.result.features[p[1]].feature
                            = tree.result.features[p[2]].feature
                       /\ line.result.features[p[1]].line
                            = tree.result.features[p[2]].line } }

\* both severity functions agree and no held usage has the null tier
SameEmissionRule ==
  /\ \A baseline \in Tiers \ {"null"} : \A meetsCriteria \in BOOLEAN :
       JavaScriptAnalyzer_determineSeverity(baseline, meetsCriteria)
         = SimpleJavaScriptAnalyzer_determineSeverity(baseline, meetsCriteria)
  /\ \A c \in { c \in Calls : c.extractor # "CSSAnalyzer" } :
       \A i \in 1..Len(c.result.features) : c.result.features[i].baseline # "null"

\* the claim as stated
C29_ExtractorsInterchangeable ==
  /\ PassedByTree \subseteq LineVocabulary
  /\ SameEmissionRule
  /\ \A t \in LineVocabulary \cup PassedByTree :
       /\ JavaScriptAnalyzer_getPolyfillSuggestion(t)
            = SimpleJavaScriptAnalyzer_getPolyfillSuggestion(t)
       /\ JavaScriptAnalyzer_getAlternativeSuggestion(t)
            = SimpleJavaScriptAnalyzer_getAlternativeSuggestion(t)
  /\ \A line, tree \in Calls : SameSource(line, tree) =>
       \A p \in SameConstruct(line, tree) : [p[1] EXCEPT !.column = p[2].column] = p[2]

\* what the two extractors share: the emission rule, the polyfill table, the
\* alternative table on the line-based vocabulary, and for one construct
\* every field except column and context
C29_ExtractorsShareEmissionRule ==
  /\ SameEmissionRule
  /\ \A t \in LineVocabulary \cup PassedByTree :
       /\ JavaScriptAnalyzer_getPolyfillSuggestion(t)
            = SimpleJavaScriptAnalyzer_getPolyfillSuggestion(t)
       /\ t \in LineVocabulary =>
            JavaScriptAnalyzer_getAlternativeSuggestion(t)
              = SimpleJavaScriptAnalyzer_getAlternativeSuggestion(t)
  /\ \A line, tree \in Calls : SameSource(line, tree) =>
       /\ \A p \in SameConstruct(line, tree) :
            [p[1] EXCEPT !.column = p[2].column, !.context = p[2].context] = p[2]
       /\ \A i \in 1..Len(line.result.features) :
            \E p \in SameConstruct(line, tree) : p[1] = line.result.features[i]

\* both extractors analysed src/api.js and recognised new XMLHttpRequest on
\* line 1: the line-based usage carries the line, the tree-based one the
\* expression at column 10
C29_Witness ==
  \E line, tree \in Calls :
    /\ SameSource(line, tree)
    /\ \E p \in SameConstruct(line, tree) :
         /\ p[1].feature = Str("xhr")
         /\ p[1].column = 0
         /\ p[2].column = 10
         /\ p[1].context = Str("const r = new XMLHttpRequest();")
         /\ p[2].context = Str("new XMLHttpRequest()")
         /\ [p[1] EXCEPT !.column = p[2].column, !.context = p[2].context] = p[2]

(***************************************************************************)
(* C30: in every AnalysisResult, each usage in violations has tier limited *)
(* and each usage in warnings has tier newly-available; with target =      *)
(* newly-available the warnings list is empty and with target = limited    *)
(* both violations and warnings are empty, so under target = limited the   *)
(* ci command and the Action never fail on counts whatever the             *)
(* fail-on-error and fail-on-warning flags are.                            *)
(***************************************************************************)
\* the tiers of the usages of a list of the result
TiersIn(usages) == { usages[i].baseline : i \in 1..Len(usages) }

\* the parts of the claim about the targets newly-available and limited
ListsUnderLenientTargets ==
  /\ (report # <<>> /\ config.target = "newly-available") => report[1].warnings = <<>>
  /\ (report # <<>> /\ config.target = "limited") =>
       /\ report[1].violations = <<>>
       /\ report[1].warnings = <<>>
       /\ report[1].summary.errors = 0
       /\ report[1].summary.warnings = 0
  /\ (Ended /\ Run.completed /\ config.target = "limited") => ~Run.failed

\* the claim as stated
C30_SeverityListsByTier ==
  /\ report # <<>> =>
       /\ TiersIn(report[1].violations) \subseteq {"limited"}
       /\ TiersIn(report[1].warnings) \subseteq {"newly-available"}
  /\ ListsUnderLenientTargets

\* what the code guarantees: violations are limited; warnings are
\* newly-available under the three named targets, and every usage that is
\* not limited under any other target string
C30_SeverityListsByTierAndTarget ==
  /\ report # <<>> =>
       /\ TiersIn(report[1].violations) \subseteq {"limited"}
       /\ config.target \in Targets =>
            TiersIn(report[1].warnings) \subseteq {"newly-available"}
       /\ config.target \notin Targets =>
            /\ TiersIn(report[1].warnings) \subseteq {"widely-available", "newly-available"}
            /\ report[1].suggestions = <<>>
  /\ ListsUnderLenientTargets

\* the Action ran with --target baseline-2023 and fail-on-warning, the
\* warnings hold a widely-available usage, and the run fails on the warnings
C30_Witness ==
  /\ Ended
  /\ Run.completed
  /\ Run.entry = "action"
  /\ config.target = "baseline-2023"
  /\ "widely-available" \in TiersIn(report[1].warnings)
  /\ report[1].violations = <<>>
  /\ Run.options.failOnWarning
  /\ Run.failed
  /\ Run.message = "Found compatibility warnings"

=============================================================================
